---------------------------- MODULE Spec2Model ----------------------------
(***************************************************************************)
(* Drift Governance Controller of driftdriver: policy loading, the mode    *)
(* table, the loop-safety gate, the ready-queue ranker, the check          *)
(* invocation (cmd_check) and the circuit breaker (_ensure_breaker_task).  *)
(*                                                                         *)
(* Strings whose inner structure the code inspects are modelled as         *)
(* sequences of tokens: a task id "redrift-redrift-app" is                 *)
(* <<"redrift-", "redrift-", "app">>.  The token alphabet is prefix free,  *)
(* so startswith() is a comparison of leading tokens and count() a sum     *)
(* over tokens.                                                            *)
(***************************************************************************)
EXTENDS Integers, Sequences, FiniteSets, TLC

VARIABLES
    \* ---- load_drift_policy (policy.py)
    polFile,        \* what drift-policy.toml holds
    polResult,      \* what load_drift_policy returned or raised ("none" before)
    \* ---- task graph snapshot and the pure functions over it (health.py)
    tasks,          \* the task store's content, the list load_workgraph returns
    now,            \* the wall clock read by _future_not_before
    queueLimit,     \* the limit argument of rank_ready_drift_queue
    queueOut,       \* its output ("none" before the call)
    checkedId,      \* the id handed to _compute_loop_safety
    gatePolicy,     \* the policy handed to _compute_loop_safety
    verdict,        \* its result ("none" before the call)
    \* ---- one check invocation (cli.py cmd_check)
    ck,             \* the invocation's locals (a record) and position
    laneRuns,       \* the lane commands issued so far, in order
    \* ---- circuit breaker (_ensure_breaker_task) called by concurrent invocations
    bpc,            \* caller -> position in _ensure_breaker_task
    barg,           \* caller -> origin task id of the call in flight
    bret,           \* caller -> id returned by the last finished call ("none" if none)
    createReqs,     \* origin task id -> number of `wg add` requests issued for it
    calls,          \* number of calls started so far
    \* ---- health audits (detect_cycle_from, duplicate groups, scoreboard, compaction)
    cycleOut,       \* results of detect_cycle_from over the graph, per start id
    dupOut,         \* result of the last find_duplicate_open_drift_groups call
    board,          \* result of the last compute_scoreboard call
    plan,           \* result of the last _compact_plan call
    \* ---- the graph file and one compaction run (workgraph.py, cli.py cmd_compact)
    wgFile,         \* what graph.jsonl holds, line by line
    wgOut,          \* what the last invocation that loaded it came to
    compactRun,     \* one cmd_compact invocation: its locals, requests and position
    \* ---- ecosystem update checks (updates.py)
    updState,       \* the persisted update state file
    upstream,       \* repository -> head sha the remote serves
    updOut,         \* what the last check_ecosystem_updates call did and returned
    \* ---- continuation throttle (continuation.py)
    contState,      \* the timestamps recorded in .continuation-state
    throttleOut,    \* result of the last check_throttle call
    \* ---- project autopilot (project_autopilot.py run_autopilot_loop)
    apRun           \* the AutopilotRun, the loop's locals and its position

vars == <<polFile, polResult, tasks, now, queueLimit, queueOut, checkedId, gatePolicy,
          verdict, ck, laneRuns, bpc, barg, bret, createReqs, calls, cycleOut, dupOut,
          board, plan, wgFile, wgOut, compactRun, updState, upstream, updOut, contState,
          throttleOut, apRun>>

policyVars == <<polFile, polResult>>
graphVars == <<tasks, now, queueLimit, queueOut, checkedId, gatePolicy, verdict>>
checkVars == <<ck, laneRuns>>
breakerVars == <<bpc, barg, bret, createReqs, calls>>
auditVars == <<cycleOut, dupOut, board, plan>>
storeVars == <<wgFile, wgOut, compactRun>>
updateVars == <<updState, upstream, updOut>>
throttleVars == <<contState, throttleOut>>
autopilotVars == <<apRun>>
sideVars == <<storeVars, updateVars, throttleVars, autopilotVars>>

Min(a, b) == IF a < b THEN a ELSE b
Max(a, b) == IF a > b THEN a ELSE b

(***************************************************************************)
(* policy.py                                                               *)
(***************************************************************************)
ALLOWED_MODES == {"observe", "advise", "redirect", "heal", "breaker"}

DEFAULT_ORDER == <<"coredrift", "specdrift", "datadrift", "archdrift", "depsdrift",
                   "uxdrift", "therapydrift", "yagnidrift", "redrift">>

\* A TOML value as Python sees it: k is its Python type, n its integer content.
\* "absent" is a key the table does not hold.
Absent == [k |-> "absent", n |-> 0]
TInt(n) == [k |-> "int", n |-> n]
TBool(b) == [k |-> "bool", n |-> IF b THEN 1 ELSE 0]
TNumStr(n) == [k |-> "numstr", n |-> n]       \* a string such as "12"
TWord == [k |-> "str", n |-> 0]                  \* a string such as "abc"
TList == [k |-> "list", n |-> 0]                 \* an array

\* dict.get(key, default)
Get(v, default) == IF v.k = "absent" THEN default ELSE v

\* Python's int(x): [ok, n]; ok = FALSE is ValueError / TypeError.
PyInt(v) ==
    CASE v.k \in {"int", "bool", "numstr"} -> [ok |-> TRUE, n |-> v.n]
      [] OTHER -> [ok |-> FALSE, n |-> 0]

\* Python's bool(x) for the value kinds above (a non-empty string or list is truthy).
PyBool(v) ==
    CASE v.k \in {"int", "bool"} -> v.n # 0
      [] OTHER -> TRUE

\* str(x).strip().lower() on the mode strings the model configures.
StripLower(s) ==
    CASE s = "HEAL" -> "heal"
      [] s = " observe " -> "observe"
      [] s = "Breaker" -> "breaker"
      [] OTHER -> s

\* A clamp that lets every value through.
ClampLowNone(n, low) == n

\* policy.py:140-141 and its siblings: clamp below.
ClampLow(n, low) == IF n < low THEN low ELSE n

DefaultPolicy ==
    [raised |-> FALSE, schema |-> 1, mode |-> "redirect", order |-> DEFAULT_ORDER,
     cooldown_seconds |-> 1800, max_auto_actions_per_hour |-> 2,
     require_new_evidence |-> TRUE, max_auto_depth |-> 2,
     contracts_auto_ensure |-> TRUE, updates_enabled |-> TRUE,
     updates_check_interval_seconds |-> 21600, updates_create_followup |-> FALSE,
     loop_max_redrift_depth |-> 2, loop_max_ready_drift_followups |-> 20,
     loop_block_followup_creation |-> TRUE]

Raised == [DefaultPolicy EXCEPT !.raised = TRUE]

\* str(x).strip() on the lane names the model configures; "" is dropped by the filter.
StripName(s) ==
    CASE s = " redrift " -> "redrift"
      [] s = " coredrift " -> "coredrift"
      [] s = " " -> ""
      [] OTHER -> s

RECURSIVE StripAll(_, _)
StripAll(raw, i) ==
    IF i > Len(raw) THEN <<>>
    ELSE IF StripName(raw[i]) = "" THEN StripAll(raw, i + 1)
         ELSE <<StripName(raw[i])>> \o StripAll(raw, i + 1)

RECURSIVE AppendMissing(_, _, _)
AppendMissing(order, defaults, i) ==
    IF i > Len(defaults) THEN order
    ELSE IF \E j \in 1..Len(order) : order[j] = defaults[i]
         THEN AppendMissing(order, defaults, i + 1)
         ELSE AppendMissing(Append(order, defaults[i]), defaults, i + 1)

\* policy.py:126-136.  order_raw.list = FALSE: the key is absent or not an array.
LoadOrder(order_raw) ==
    IF ~order_raw.list THEN DEFAULT_ORDER
    ELSE LET o0 == StripAll(order_raw.items, 1)
             o1 == IF \E j \in 1..Len(o0) : o0[j] = "coredrift"
                   THEN o0 ELSE <<"coredrift">> \o o0
         IN AppendMissing(o1, DEFAULT_ORDER, 1)

\* policy.py:138, 150, 153, 160: a section that is not a table reads as {}.
Sect(d, section, key) == IF section \in d.tables THEN d[key] ELSE Absent

\* policy.py:123-124
LoadMode(d) ==
    LET mode_raw == StripLower(IF d.mode = "<absent>" THEN "redirect" ELSE d.mode)
    IN IF mode_raw \in ALLOWED_MODES THEN mode_raw ELSE "redirect"

\* policy.py:122-184 on a parsed file `d`.  Every int(...) may raise; the first one
\* that does ends the call.
LoadParsed(d) ==
    LET schema == PyInt(Get(d.schema, TInt(1)))
        cooldown == PyInt(Get(Sect(d, "recursion", "cooldown_seconds"), TInt(1800)))
        perhour == PyInt(Get(Sect(d, "recursion", "max_auto_actions_per_hour"), TInt(2)))
        autodepth == PyInt(Get(Sect(d, "recursion", "max_auto_depth"), TInt(2)))
        interval == PyInt(Get(Sect(d, "updates", "check_interval_seconds"), TInt(21600)))
        maxdepth == PyInt(Get(Sect(d, "loop_safety", "max_redrift_depth"), TInt(2)))
        maxready == PyInt(Get(Sect(d, "loop_safety", "max_ready_drift_followups"), TInt(20)))
    IN IF ~(schema.ok /\ cooldown.ok /\ perhour.ok /\ autodepth.ok /\ interval.ok
             /\ maxdepth.ok /\ maxready.ok)
       THEN Raised
       ELSE [raised |-> FALSE, schema |-> schema.n, mode |-> LoadMode(d),
             order |-> LoadOrder(d.order),
             cooldown_seconds |-> ClampLow(cooldown.n, 0),
             max_auto_actions_per_hour |-> ClampLow(perhour.n, 0),
             require_new_evidence |->
                 PyBool(Get(Sect(d, "recursion", "require_new_evidence"), TBool(TRUE))),
             max_auto_depth |-> ClampLow(autodepth.n, 1),
             contracts_auto_ensure |->
                 PyBool(Get(Sect(d, "contracts", "auto_ensure"), TBool(TRUE))),
             updates_enabled |-> PyBool(Get(Sect(d, "updates", "enabled"), TBool(TRUE))),
             updates_check_interval_seconds |-> ClampLow(interval.n, 0),
             updates_create_followup |->
                 PyBool(Get(Sect(d, "updates", "create_followup"), TBool(FALSE))),
             loop_max_redrift_depth |-> ClampLow(maxdepth.n, 0),
             loop_max_ready_drift_followups |-> ClampLow(maxready.n, 0),
             loop_block_followup_creation |->
                 PyBool(Get(Sect(d, "loop_safety", "block_followup_creation"), TBool(TRUE)))]

\* policy.py:82-184.  f.state: "missing" (no file), "unparsable" (tomllib raises),
\* "parsed" (f.data is the table).
load_drift_policy(f) ==
    CASE f.state = "missing" -> DefaultPolicy
      [] f.state = "unparsable" -> DefaultPolicy
      [] OTHER -> LoadParsed(f.data)

\* A parsed policy table with every key absent and every section a table.
EmptyData ==
    [schema |-> Absent, mode |-> "<absent>", order |-> [list |-> FALSE, items |-> <<>>],
     tables |-> {"recursion", "contracts", "updates", "loop_safety"},
     cooldown_seconds |-> Absent, max_auto_actions_per_hour |-> Absent,
     require_new_evidence |-> Absent, max_auto_depth |-> Absent,
     auto_ensure |-> Absent, enabled |-> Absent, check_interval_seconds |-> Absent,
     create_followup |-> Absent, max_redrift_depth |-> Absent,
     max_ready_drift_followups |-> Absent, block_followup_creation |-> Absent]

(***************************************************************************)
(* health.py: the classifier                                               *)
(***************************************************************************)
\* The id tokens in ascending string order (Python compares ids as strings).
TokenOrder == <<"app", "archdrift-", "breaker-", "coredrift-", "datadrift-", "depsdrift-",
                "drift-", "fix-", "fixdrift-", "harden-", "pit-", "redrift-", "scope-",
                "self-update-", "specdrift-", "speedrift-", "stage-a:", "stage-b:", "t1", "t2",
                "t3", "therapydrift-", "uxdrift-", "widget", "x", "yagnidrift-", "z">>

\* health.py:9-11 _DRIFT_ID_RE: the family prefixes an id may start with.
DriftFamilyTokens == {"drift-", "coredrift-", "specdrift-", "datadrift-", "archdrift-",
                      "depsdrift-", "uxdrift-", "therapydrift-", "fixdrift-",
                      "yagnidrift-", "redrift-", "speedrift-"}

\* Occurrences of the substring "redrift-" inside one token ("coredrift-" holds one).
RedriftInToken(tok) == IF tok \in {"redrift-", "coredrift-"} THEN 1 ELSE 0

\* str.startswith on a token sequence.
StartsWith(id, prefix) ==
    /\ Len(id) >= Len(prefix)
    /\ \A i \in 1..Len(prefix) : id[i] = prefix[i]

\* A timestamp field: k = "none" (missing or empty), "bad" (datetime.fromisoformat
\* raises) or "ts" (parses to epoch n).
\* A "ts" stamp is n whole seconds and ms thousandths after the epoch.
NoTime == [k |-> "none", n |-> 0, ms |-> 0]
BadTime == [k |-> "bad", n |-> 0, ms |-> 0]
Time(n) == [k |-> "ts", n |-> n, ms |-> 0]
TimeMs(n, ms) == [k |-> "ts", n |-> n, ms |-> ms]

\* health.py:17-18
task_status(task) == IF task.status = "" THEN "open" ELSE task.status

\* health.py:21-23
is_active(task) == task_status(task) \notin {"done", "abandoned"}

\* health.py:26-28: the description is the set of fence markers it holds; "wg-contract"
\* is the opening fence of a contract block.
has_contract(task) == "wg-contract" \in task.description

\* health.py:12 _DRIFT_WORD_RE on one title word: \bdrift\b, ignoring case.
DriftWord(w) == w \in {"drift", "Drift", "DRIFT"}

\* health.py:13 _DRIFT_TAG_RE searched in a lowercased tag.
DriftTag(tag) == tag \in {"drift", "Drift", "breaker-drift", "therapy", "hotfix", "fix",
                          "yagni", "redrift"}

\* health.py:31-45
is_drift_task(task) ==
    \/ (Len(task.id) > 0 /\ task.id[1] \in DriftFamilyTokens)
    \/ \E i \in 1..Len(task.title) : DriftWord(task.title[i])
    \/ \E tag \in task.tags : DriftTag(tag)

\* health.py:48-49
RECURSIVE redrift_depth(_)
redrift_depth(id) ==
    IF Len(id) = 0 THEN 0 ELSE RedriftInToken(Head(id)) + redrift_depth(Tail(id))

\* The dict {id: task} built from a task list: a later task replaces an earlier
\* one of the same id.  HasTask / TaskOf are dict.get.
HasTask(ts, id) == \E i \in 1..Len(ts) : ts[i].id = id
TaskOf(ts, id) ==
    ts[CHOOSE i \in 1..Len(ts) : ts[i].id = id /\ \A j \in (i + 1)..Len(ts) : ts[j].id # id]

\* A fail-open variant: a blocker missing from the index is skipped.
blockers_done_failopen(task, ts) ==
    \A i \in 1..Len(task.blocked_by) :
        HasTask(ts, task.blocked_by[i])
            => task_status(TaskOf(ts, task.blocked_by[i])) = "done"

\* health.py:52-63
blockers_done(task, ts) ==
    \A i \in 1..Len(task.blocked_by) :
        /\ HasTask(ts, task.blocked_by[i])
        /\ task_status(TaskOf(ts, task.blocked_by[i])) = "done"

\* health.py:145-157
future_not_before(task, clock) == task.not_before.k = "ts" /\ task.not_before.n > clock

\* health.py:130-142: int(dt.timestamp()), the whole seconds.
task_epoch(task) == IF task.created_at.k = "ts" THEN task.created_at.n ELSE 0

(***************************************************************************)
(* health.py: the cycle detector                                           *)
(***************************************************************************)
\* Only the first blocker of a node is followed.
BlockersOfFirst(ts, id) ==
    IF HasTask(ts, id) /\ Len(TaskOf(ts, id).blocked_by) > 0
    THEN <<TaskOf(ts, id).blocked_by[1]>> ELSE <<>>

\* health.py:81-84: the blockers of a node, none when the id is not in the index.
BlockersOf(ts, id) == IF HasTask(ts, id) THEN TaskOf(ts, id).blocked_by ELSE <<>>

\* health.py:74-89 _dfs, with the visited set threaded through the calls and the
\* recursion stack passed down (stack.remove on the way out).  `order` lists the
\* ids in the order visited.add ran for them.
RECURSIVE Dfs(_, _, _, _, _)
RECURSIVE DfsBlockers(_, _, _, _, _, _)

\* _dfs with the two membership tests swapped.
DfsVisitedFirst(cur, visited, stack, order, ts) ==
    IF cur \in visited THEN [found |-> FALSE, visited |-> visited, order |-> order]
    ELSE IF cur \in stack THEN [found |-> TRUE, visited |-> visited, order |-> order]
    ELSE DfsBlockers(BlockersOf(ts, cur), 1, visited \cup {cur}, stack \cup {cur},
                     Append(order, cur), ts)

\* _dfs without the visited test.
DfsNoVisited(cur, visited, stack, order, ts) ==
    IF cur \in stack THEN [found |-> TRUE, visited |-> visited, order |-> order]
    ELSE DfsBlockers(BlockersOf(ts, cur), 1, visited \cup {cur}, stack \cup {cur},
                     Append(order, cur), ts)

Dfs(cur, visited, stack, order, ts) ==
    IF cur \in stack THEN [found |-> TRUE, visited |-> visited, order |-> order]
    ELSE IF cur \in visited THEN [found |-> FALSE, visited |-> visited, order |-> order]
    ELSE DfsBlockers(BlockersOf(ts, cur), 1, visited \cup {cur}, stack \cup {cur},
                     Append(order, cur), ts)
DfsBlockers(bs, i, visited, stack, order, ts) ==
    IF i > Len(bs) THEN [found |-> FALSE, visited |-> visited, order |-> order]
    ELSE LET r == Dfs(bs[i], visited, stack, order, ts)
         IN IF r.found THEN r ELSE DfsBlockers(bs, i + 1, r.visited, stack, r.order, ts)

\* health.py:66-91, as the whole walk: the answer and the ids visited.
cycle_walk(id, ts) ==
    IF Len(id) = 0 THEN [found |-> FALSE, visited |-> {}, order |-> <<>>]
    ELSE Dfs(id, {}, {}, <<>>, ts)

\* health.py:66-91
detect_cycle_from(id, ts) == cycle_walk(id, ts).found

(***************************************************************************)
(* health.py: the ready-queue ranker                                       *)
(***************************************************************************)
\* A tier table in which a pit-stop task outranks a breaker task.
queue_priority_pit_first(task) ==
    CASE StartsWith(task.id, <<"coredrift-", "pit-">>) -> 100
      [] StartsWith(task.id, <<"drift-", "breaker-">>) -> 90
      [] OTHER -> 50

\* health.py:160-177
queue_priority(task) ==
    CASE StartsWith(task.id, <<"drift-", "breaker-">>) -> 100
      [] StartsWith(task.id, <<"coredrift-", "pit-">>) -> 90
      [] \E i \in 1..Len(task.title) : task.title[i] = "missing_contract" -> 85
      [] StartsWith(task.id, <<"drift-", "harden-">>) -> 80
      [] StartsWith(task.id, <<"drift-", "fix-">>) -> 75
      [] StartsWith(task.id, <<"drift-", "scope-">>) -> 70
      [] StartsWith(task.id, <<"redrift-">>) -> 60
      [] OTHER -> 50

TokenRank(tok) == CHOOSE i \in 1..Len(TokenOrder) : TokenOrder[i] = tok

\* Python's < on two id strings.
RECURSIVE IdLess(_, _)
IdLess(a, b) ==
    IF Len(b) = 0 THEN FALSE
    ELSE IF Len(a) = 0 THEN TRUE
    ELSE IF Head(a) = Head(b) THEN IdLess(Tail(a), Tail(b))
    ELSE TokenRank(Head(a)) < TokenRank(Head(b))

\* A sort key without the id: (-priority, epoch).
KeyLessNoId(a, b) ==
    \/ queue_priority(a) > queue_priority(b)
    \/ (queue_priority(a) = queue_priority(b) /\ task_epoch(a) < task_epoch(b))

\* health.py:194: the sort key (-priority, epoch, id), compared as tuples.
KeyLess(a, b) ==
    \/ queue_priority(a) > queue_priority(b)
    \/ /\ queue_priority(a) = queue_priority(b)
       /\ \/ task_epoch(a) < task_epoch(b)
          \/ (task_epoch(a) = task_epoch(b) /\ IdLess(a.id, b.id))

\* list.sort(key=...): a stable sort of the first i tasks; an element goes after
\* the elements that are not greater than it.
SortTasks(ts, i) == SortSeq(SubSeq(ts, 1, i), KeyLess)

\* health.py:183-192: the filter of rank_ready_drift_queue.
ReadyFilter(task, ts, clock) ==
    /\ is_drift_task(task)
    /\ is_active(task)
    /\ ~future_not_before(task, clock)
    /\ blockers_done(task, ts)

ReadyTasks(ts, clock) == SelectSeq(ts, LAMBDA t : ReadyFilter(t, ts, clock))

\* health.py:196-206: the flat summary record of one task.
Summary(task) ==
    [task_id |-> task.id, title |-> task.title, status |-> task_status(task),
     priority |-> queue_priority(task), created_at |-> task.created_at,
     blocked_by |-> task.blocked_by]

\* health.py:180-207
rank_ready_drift_queue(ts, limit, clock) ==
    LET ready == ReadyTasks(ts, clock)
        sorted == SortTasks(ready, Len(ready))
        cut == SubSeq(sorted, 1, Min(Len(sorted), Max(1, limit)))
    IN [i \in 1..Len(cut) |-> Summary(cut[i])]

\* len(rank_ready_drift_queue(ts, limit)): the length of the truncated list.
ranked_len(ts, limit, clock) == Min(Len(ReadyTasks(ts, clock)), Max(1, limit))

(***************************************************************************)
(* cli.py: the mode table and the loop-safety gate                         *)
(***************************************************************************)
OPTIONAL_PLUGINS == <<"specdrift", "datadrift", "archdrift", "depsdrift", "uxdrift",
                      "therapydrift", "fixdrift", "yagnidrift", "redrift">>

Flags(w, c) == [write_log |-> w, create_followups |-> c]

\* A table whose heal row hands --create-followups to every lane.
mode_flags_heal_all(mode, plugin) ==
    LET m == StripLower(IF mode = "" THEN "redirect" ELSE mode)
    IN CASE m = "observe" -> Flags(FALSE, FALSE)
         [] m \in {"advise", "breaker"} -> Flags(TRUE, FALSE)
         [] OTHER -> Flags(TRUE, TRUE)

\* cli.py:415-433
mode_flags(mode, plugin) ==
    LET m == StripLower(IF mode = "" THEN "redirect" ELSE mode)
    IN CASE m = "observe" -> Flags(FALSE, FALSE)
         [] m = "advise" -> Flags(TRUE, FALSE)
         [] m = "redirect" -> Flags(TRUE, TRUE)
         [] m = "heal" -> IF plugin = "therapydrift" THEN Flags(TRUE, TRUE)
                          ELSE Flags(TRUE, FALSE)
         [] m = "breaker" -> Flags(TRUE, FALSE)
         [] OTHER -> Flags(TRUE, TRUE)

\* cli.py:832: the limit _compute_loop_safety hands to rank_ready_drift_queue.
LOOP_QUEUE_LIMIT == 10000

\* cli.py:839-845: the reasons, in the order the code appends them.
LoopReasons(depth, max_depth, ready_count, max_ready, has_cycle) ==
    (IF depth > max_depth THEN <<"redrift_depth_exceeded">> ELSE <<>>)
    \o (IF ready_count > max_ready THEN <<"ready_drift_queue_exceeded">> ELSE <<>>)
    \o (IF has_cycle THEN <<"blocked_by_cycle_detected">> ELSE <<>>)

\* cli.py:822-856
compute_loop_safety(task_id, ts, policy, clock) ==
    LET depth == IF StartsWith(task_id, <<"redrift-">>) THEN redrift_depth(task_id) ELSE 0
        max_depth == ClampLow(policy.loop_max_redrift_depth, 0)
        ready_count == ranked_len(ts, LOOP_QUEUE_LIMIT, clock)
        max_ready == ClampLow(policy.loop_max_ready_drift_followups, 0)
        has_cycle == detect_cycle_from(task_id, ts)
        reasons == LoopReasons(depth, max_depth, ready_count, max_ready, has_cycle)
    IN [max_redrift_depth |-> max_depth,
        observed_redrift_depth |-> depth,
        max_ready_drift_followups |-> max_ready,
        ready_drift_followups |-> ready_count,
        blocked_by_cycle |-> has_cycle,
        followups_blocked |-> policy.loop_block_followup_creation /\ Len(reasons) > 0,
        reasons |-> reasons]

(***************************************************************************)
(* Values of the variables a specification does not use.                   *)
(***************************************************************************)
NoPolicy == [done |-> FALSE]
NoQueue == [done |-> FALSE]
NoVerdict == [done |-> FALSE]
NoCheck == [pc |-> "idle"]
NoId == <<>>

PolicyIdle == polFile = [state |-> "missing"] /\ polResult = NoPolicy
GraphIdle ==
    /\ tasks = <<>> /\ now = 0 /\ queueLimit = 0 /\ queueOut = NoQueue
    /\ checkedId = NoId /\ gatePolicy = DefaultPolicy /\ verdict = NoVerdict
CheckIdle == ck = NoCheck /\ laneRuns = <<>>
BreakerIdle ==
    /\ bpc = <<>> /\ barg = <<>> /\ bret = <<>> /\ createReqs = <<>> /\ calls = 0
NoAudit == [done |-> FALSE]
AuditIdle == cycleOut = NoAudit /\ dupOut = NoAudit /\ board = NoAudit /\ plan = NoAudit
StoreIdle == wgFile = [readable |-> TRUE, lines |-> <<>>] /\ wgOut = NoAudit /\ compactRun = [pc |-> "idle"]
UpdateIdle == updState = <<>> /\ upstream = <<>> /\ updOut = NoAudit
ThrottleIdle == contState = <<>> /\ throttleOut = NoAudit
AutopilotIdle == apRun = [pc |-> "idle"]
SideIdle == StoreIdle /\ UpdateIdle /\ ThrottleIdle /\ AutopilotIdle

(***************************************************************************)
(* SpecPolicy: load_drift_policy on the policy files an operator can write *)
(***************************************************************************)
ModeStrings == {"<absent>", "observe", "advise", "redirect", "heal", "breaker",
                "HEAL", "invalid"}

PolicyData ==
    {[EmptyData EXCEPT !.mode = m, !.schema = sc, !.tables = tb,
                       !.cooldown_seconds = a, !.max_auto_actions_per_hour = b,
                       !.max_auto_depth = c, !.check_interval_seconds = d,
                       !.max_redrift_depth = e, !.max_ready_drift_followups = f] :
        m \in ModeStrings, sc \in {Absent, TInt(1)},
        tb \in {EmptyData.tables, EmptyData.tables \ {"loop_safety"}},
        a \in {Absent, TInt(-1), TWord},
        b \in {TInt(-3), TInt(5), TList},
        c \in {Absent, TInt(0), TInt(-2), TInt(4)},
        d \in {TInt(-10), TNumStr(60), TBool(TRUE)},
        e \in {Absent, TInt(-2), TInt(3), TWord},
        f \in {TInt(-5), TInt(0), TInt(20), TList}}

PolicyFiles ==
    {[state |-> "missing"], [state |-> "unparsable"]}
    \cup {[state |-> "parsed", data |-> d] : d \in PolicyData}

PolicyInit == polFile \in PolicyFiles /\ polResult = NoPolicy

\* One call of load_drift_policy(wg_dir).
LoadPolicy ==
    /\ ~polResult.done
    /\ polResult' = [done |-> TRUE, p |-> load_drift_policy(polFile)]
    /\ UNCHANGED <<polFile, auditVars, sideVars, graphVars, checkVars, breakerVars>>

InitPolicy == PolicyInit /\ GraphIdle /\ CheckIdle /\ BreakerIdle /\ AuditIdle /\ SideIdle
NextPolicy == LoadPolicy
SpecPolicy == InitPolicy /\ [][NextPolicy]_vars

\* C8: every policy load_drift_policy returns has one of the five modes (a configured
\* string that is none of them becomes redirect) and no limit below its floor:
\* the loop limits, cooldown, actions per hour and check interval >= 0,
\* max_auto_depth >= 1.
C8_ReturnedPolicySanitized ==
    (polResult.done /\ ~polResult.p.raised) =>
        /\ polResult.p.mode \in {"observe", "advise", "redirect", "heal", "breaker"}
        /\ (polFile.state = "parsed" /\ polFile.data.mode \in {"invalid", "<absent>"}
              => polResult.p.mode = "redirect")
        /\ polResult.p.loop_max_redrift_depth >= 0
        /\ polResult.p.loop_max_ready_drift_followups >= 0
        /\ polResult.p.cooldown_seconds >= 0
        /\ polResult.p.max_auto_actions_per_hour >= 0
        /\ polResult.p.updates_check_interval_seconds >= 0
        /\ polResult.p.max_auto_depth >= 1

\* Scenario E: max_ready_drift_followups = -5 and an unrecognized mode were configured
\* and a policy came back with 0 and redirect.
C8_Witness ==
    /\ polResult.done /\ ~polResult.p.raised
    /\ polFile.state = "parsed"
    /\ polFile.data.mode = "invalid"
    /\ "loop_safety" \in polFile.data.tables
    /\ polFile.data.max_ready_drift_followups = TInt(-5)
    /\ polFile.data.max_redrift_depth = TInt(-2)
    /\ polResult.p.loop_max_ready_drift_followups = 0
    /\ polResult.p.mode = "redirect"

\* C9: load_drift_policy never fails: every call returns a policy, whatever the file
\* holds (missing, unparsable, out of range, wrong type).
C9_LoadNeverRaises == polResult.done => ~polResult.p.raised

(***************************************************************************)
(* Task graph snapshots                                                    *)
(***************************************************************************)
MaxTasks == 3       \* tasks in a small snapshot
MaxLimit == 2       \* largest limit handed to rank_ready_drift_queue

Statuses == {"open", "in-progress", "done", "abandoned"}

\* An id no snapshot holds.
GhostId == <<"z">>

\* The tasks a small snapshot is built from, by position; status and blocked_by are
\* filled in when the task is added.  `v` picks what makes task 2 a drift task, if
\* anything.
PoolTask(i, v) ==
    CASE i = 1 -> [id |-> <<"drift-", "x">>, title |-> <<"tidy", "widget">>, tags |-> {},
                   created_at |-> Time(2), not_before |-> Time(5), description |-> {}]
      [] i = 2 -> [id |-> <<"t1">>,
                   title |-> IF v = "title" THEN <<"Drift", "report">> ELSE <<"drifting", "docs">>,
                   tags |-> IF v = "tag" THEN {"hotfix"} ELSE {"docs"},
                   created_at |-> BadTime, not_before |-> BadTime,
                   description |-> {"wg-contract"}]
      [] i = 3 -> [id |-> <<"redrift-", "redrift-", "redrift-", "app">>,
                   title |-> <<"redrift build:", "app">>, tags |-> {"redrift"},
                   created_at |-> Time(1), not_before |-> NoTime, description |-> {}]
      [] i = 4 -> [id |-> <<"t2">>, title |-> <<"widget">>, tags |-> {"drift"},
                   created_at |-> NoTime, not_before |-> NoTime, description |-> {}]
      [] OTHER -> [id |-> <<"t3">>, title |-> <<"notes">>, tags |-> {},
                   created_at |-> NoTime, not_before |-> NoTime, description |-> {}]

PoolId(i) == PoolTask(i, "none").id

\* The blocked_by lists task i may carry: none, the next task of the pool (missing
\* from the snapshot until it is added), or the first task (itself for task 1).
BlockerChoices(i) == {<<>>, <<PoolId(i + 1)>>, <<PoolId(1)>>}

StatusChoices(i) == IF i <= 2 THEN Statuses ELSE {"open", "done"}
VariantChoices(i) == IF i = 2 THEN {"none", "title", "tag"} ELSE {"none"}

MkTask(i, v, status, blocked_by) ==
    LET p == PoolTask(i, v)
    IN [id |-> p.id, title |-> p.title, status |-> status, tags |-> p.tags,
        blocked_by |-> blocked_by, created_at |-> p.created_at,
        not_before |-> p.not_before, description |-> p.description]

\* The task store gains its next task (wg add by an agent or an operator, before the
\* invocation that reads the snapshot).
AddTask(status, blocked_by, v) ==
    /\ Len(tasks) < MaxTasks
    /\ status \in StatusChoices(Len(tasks) + 1)
    /\ blocked_by \in BlockerChoices(Len(tasks) + 1)
    /\ v \in VariantChoices(Len(tasks) + 1)
    /\ tasks' = Append(tasks, MkTask(Len(tasks) + 1, v, status, blocked_by))

(***************************************************************************)
(* SpecQueue: rank_ready_drift_queue on small snapshots                    *)
(***************************************************************************)
InitQueue ==
    /\ PolicyIdle /\ CheckIdle /\ BreakerIdle /\ AuditIdle /\ SideIdle
    /\ tasks = <<>>
    /\ now \in {3, 7}
    /\ queueLimit = 0 /\ queueOut = NoQueue
    /\ checkedId = NoId /\ gatePolicy = DefaultPolicy /\ verdict = NoVerdict

GrowQueueSnapshot ==
    /\ ~queueOut.done
    /\ \E status \in Statuses, blocked_by \in BlockerChoices(Len(tasks) + 1),
          v \in {"none", "title", "tag"} : AddTask(status, blocked_by, v)
    /\ UNCHANGED <<now, queueLimit, queueOut, checkedId, gatePolicy, verdict, policyVars, auditVars, sideVars,
                   checkVars, breakerVars>>

\* One call rank_ready_drift_queue(tasks, limit=limit).
RankQueue(limit) ==
    /\ ~queueOut.done
    /\ queueLimit' = limit
    /\ queueOut' = [done |-> TRUE, out |-> rank_ready_drift_queue(tasks, limit, now)]
    /\ UNCHANGED <<tasks, now, checkedId, gatePolicy, verdict, policyVars, auditVars, sideVars, checkVars,
                   breakerVars>>

NextQueue == GrowQueueSnapshot \/ \E limit \in 0..MaxLimit : RankQueue(limit)
SpecQueue == InitQueue /\ [][NextQueue]_vars

\* The readiness of the task at position i of the snapshot, as the specification
\* words it: a drift task, active, not gated into the future, every blocker present
\* in the snapshot and done.
SpecReady(i) ==
    /\ is_drift_task(tasks[i])
    /\ tasks[i].status \notin {"done", "abandoned"}
    /\ ~(tasks[i].not_before.k = "ts" /\ tasks[i].not_before.n > now)
    /\ \A b \in {tasks[i].blocked_by[k] : k \in 1..Len(tasks[i].blocked_by)} :
          \E j \in 1..Len(tasks) : tasks[j].id = b /\ tasks[j].status = "done"

OutIds == {queueOut.out[k].task_id : k \in 1..Len(queueOut.out)}
ReadyPositions == {i \in 1..Len(tasks) : SpecReady(i)}

RunawayGraph(n) ==
    [i \in 1..n |->
        [id |-> <<"drift-", "fix-", ToString(i)>>, title |-> <<"fix", "widget">>,
         status |-> "open", tags |-> {"drift"}, blocked_by |-> <<>>,
         created_at |-> NoTime, not_before |-> NoTime, description |-> {}]]

\* The ids a check is run for.
GateIds == {<<"drift-", "x">>, <<"redrift-", "redrift-", "redrift-", "app">>,
            <<"coredrift-", "redrift-", "app">>}

\* The [loop_safety] tables of the policy files the gate is run under.
GateFile(max_depth, max_ready, block) ==
    [state |-> "parsed",
     data |-> [EmptyData EXCEPT !.max_redrift_depth = TInt(max_depth),
                                !.max_ready_drift_followups = TInt(max_ready),
                                !.block_followup_creation = TBool(block)]]

GateFiles == {GateFile(2, 1, TRUE), GateFile(3, 0, TRUE), GateFile(-1, LOOP_QUEUE_LIMIT, TRUE),
              GateFile(2, 1, FALSE)}

InitGate ==
    /\ PolicyIdle /\ CheckIdle /\ BreakerIdle /\ AuditIdle /\ SideIdle
    /\ tasks \in {<<>>, RunawayGraph(LOOP_QUEUE_LIMIT + 1)}
    /\ now \in {3, 7}
    /\ queueLimit = 0 /\ queueOut = NoQueue
    /\ checkedId = NoId /\ gatePolicy = DefaultPolicy /\ verdict = NoVerdict

GrowGateSnapshot ==
    /\ ~verdict.done
    /\ \E status \in Statuses, blocked_by \in BlockerChoices(Len(tasks) + 1) :
          AddTask(status, blocked_by, "none")
    /\ UNCHANGED <<now, queueLimit, queueOut, checkedId, gatePolicy, verdict, policyVars, auditVars, sideVars,
                   checkVars, breakerVars>>

\* One call _compute_loop_safety(wg_dir, task_id, policy) with a freshly loaded policy.
ComputeGate(id, file) ==
    /\ ~verdict.done
    /\ checkedId' = id
    /\ gatePolicy' = load_drift_policy(file)
    /\ verdict' = [done |-> TRUE, v |-> compute_loop_safety(id, tasks, gatePolicy', now)]
    /\ UNCHANGED <<tasks, now, queueLimit, queueOut, policyVars, auditVars, sideVars, checkVars, breakerVars>>

NextGate == GrowGateSnapshot \/ \E id \in GateIds, file \in GateFiles : ComputeGate(id, file)
SpecGate == InitGate /\ [][NextGate]_vars

HasReason(r) == \E k \in 1..Len(verdict.v.reasons) : verdict.v.reasons[k] = r

\* C5: the verdict holds the depth reason iff the redrift depth of the checked id (0
\* for an id outside the redrift family) exceeds the policy's max depth, the queue
\* reason iff the number of ready drift tasks of the snapshot exceeds the policy's
\* max ready, the cycle reason iff a cycle is detected from the checked id, and
\* followups_blocked = block_followup_creation /\ (some reason).
C5_VerdictAsSpecified ==
    verdict.done =>
        LET depth == IF checkedId[1] = "redrift-" THEN redrift_depth(checkedId) ELSE 0
        IN /\ verdict.v.observed_redrift_depth = depth
           /\ HasReason("redrift_depth_exceeded") <=> depth > gatePolicy.loop_max_redrift_depth
           /\ HasReason("ready_drift_queue_exceeded")
                <=> Cardinality(ReadyPositions) > gatePolicy.loop_max_ready_drift_followups
           /\ HasReason("blocked_by_cycle_detected") <=> detect_cycle_from(checkedId, tasks)
           /\ verdict.v.followups_blocked
                <=> (gatePolicy.loop_block_followup_creation /\ Len(verdict.v.reasons) > 0)


\* What the code computes (the count is that of a list cut at LOOP_QUEUE_LIMIT).
C5_VerdictWithScanLimit ==
    verdict.done =>
        LET depth == IF checkedId[1] = "redrift-" THEN redrift_depth(checkedId) ELSE 0
        IN /\ verdict.v.observed_redrift_depth = depth
           /\ HasReason("redrift_depth_exceeded") <=> depth > gatePolicy.loop_max_redrift_depth
           /\ HasReason("ready_drift_queue_exceeded")
                <=> Min(Cardinality(ReadyPositions), LOOP_QUEUE_LIMIT)
                      > gatePolicy.loop_max_ready_drift_followups
           /\ HasReason("blocked_by_cycle_detected") <=> detect_cycle_from(checkedId, tasks)
           /\ verdict.v.followups_blocked
                <=> (gatePolicy.loop_block_followup_creation /\ Len(verdict.v.reasons) > 0)

(***************************************************************************)
(* cli.py: one check invocation (cmd_check)                                *)
(***************************************************************************)
ExitOk == 0
ExitFindings == 3
ExitUsage == 2

\* cli.py:155-166
RECURSIVE OrderedKnown(_, _, _)
OrderedKnown(policy_order, i, acc) ==
    IF i > Len(policy_order) THEN acc
    ELSE IF (\E k \in 1..Len(OPTIONAL_PLUGINS) : OPTIONAL_PLUGINS[k] = policy_order[i])
            /\ ~(\E k \in 1..Len(acc) : acc[k] = policy_order[i])
         THEN OrderedKnown(policy_order, i + 1, Append(acc, policy_order[i]))
         ELSE OrderedKnown(policy_order, i + 1, acc)

ordered_optional_plugins(policy_order) ==
    AppendMissing(OrderedKnown(policy_order, 1, <<>>), OPTIONAL_PLUGINS, 1)

\* A lane that is handed only what the operator forced.
lane_flags_forced_only(mode, plugin, force_write_log, force_create_followups) ==
    Flags(force_write_log, force_create_followups)

\* cli.py:347-349, 396-398, 1517-1519: the mode's flags, or-ed with the forced ones.
lane_flags(mode, plugin, force_write_log, force_create_followups) ==
    Flags(mode_flags(mode, plugin).write_log \/ force_write_log,
          mode_flags(mode, plugin).create_followups \/ force_create_followups)

\* One lane command as issued: the lane, the mode it was run under, what
\* _mode_flags gave for it and the flags on its command line (_plugin_cmd).
LaneRun(lane, mode, force_write_log, force_create_followups) ==
    [lane |-> lane, mode |-> mode, base |-> mode_flags(mode, lane),
     write_log |-> lane_flags(mode, lane, force_write_log, force_create_followups).write_log,
     create_followups |->
         lane_flags(mode, lane, force_write_log, force_create_followups).create_followups]

\* cli.py:436, 442: the derived breaker id.
BreakerId(task_id) == <<"drift-", "breaker-">> \o task_id

\* cli.py:466-484: the task `wg add` is asked to create (the store stamps it open,
\* created now).
BreakerTask(task_id, clock) ==
    [id |-> BreakerId(task_id), title |-> <<"breaker:">> \o task_id, status |-> "open",
     tags |-> {"drift", "breaker"}, blocked_by |-> <<task_id>>,
     created_at |-> Time(clock), not_before |-> NoTime, description |-> {}]

\* cli.py:652
UpdateFollowupId(task_id) == <<"drift-", "self-update-">> \o task_id

\* cli.py:678-696
UpdateFollowupTask(task_id, clock) ==
    [id |-> UpdateFollowupId(task_id), title |-> <<"self-update decision:">> \o task_id,
     status |-> "open", tags |-> {"drift", "updates"}, blocked_by |-> <<task_id>>,
     created_at |-> Time(clock), not_before |-> NoTime, description |-> {}]

\* show-then-add against the store, with nothing in between: the list afterwards.
EnsureInStore(ts, task) == IF HasTask(ts, task.id) THEN ts ELSE Append(ts, task)

\* cli.py:1475-1527: from the arguments to the update preflight.
CheckStart(task_id, write_log, create_followups, json, selected, installed, has_updates) ==
    /\ ck.pc = "idle"
    /\ LET policy == load_drift_policy(polFile)
           loop_safety == compute_loop_safety(task_id, tasks, policy, now)
           downgrade == loop_safety.followups_blocked /\ policy.mode \notin {"observe", "advise"}
           effective_mode == IF downgrade THEN "advise" ELSE policy.mode
           effective_force == IF downgrade THEN FALSE ELSE create_followups
           should_create_followup == effective_force \/ policy.updates_create_followup
       IN IF policy.raised
          THEN ck' = [pc |-> "raised"] /\ UNCHANGED tasks
          ELSE IF "coredrift" \notin installed
          THEN ck' = [pc |-> "done", exit |-> ExitUsage] /\ UNCHANGED tasks
          ELSE /\ ck' = [pc |-> "coredrift", task_id |-> task_id, mode |-> policy.mode,
                         effective_mode |-> effective_mode,
                         force_write_log |-> write_log,
                         force_create_followups |-> create_followups,
                         effective_force_create_followups |-> effective_force,
                         loop_safety |-> loop_safety, json |-> json,
                         ordered_plugins |-> ordered_optional_plugins(policy.order),
                         selected |-> selected, installed |-> installed,
                         idx |-> 0, findings |-> FALSE, exit |-> ExitOk,
                         speed_rc |-> ExitOk, lane_rcs |-> {}]
               /\ tasks' = IF policy.updates_enabled /\ has_updates /\ should_create_followup
                           THEN EnsureInStore(tasks, UpdateFollowupTask(task_id, now))
                           ELSE tasks
    /\ UNCHANGED <<laneRuns, now, queueLimit, queueOut, checkedId, gatePolicy, verdict,
                   policyVars, auditVars, sideVars, breakerVars>>

\* cli.py:1529-1541, 1606-1608: the coredrift lane; any exit code but 0 and 3 ends
\* the check with that code.
RunCoredrift(rc) ==
    /\ ck.pc = "coredrift"
    /\ laneRuns' = Append(laneRuns, LaneRun("coredrift", ck.effective_mode, ck.force_write_log,
                                            ck.effective_force_create_followups))
    /\ ck' = IF rc \notin {ExitOk, ExitFindings}
             THEN [ck EXCEPT !.pc = "done", !.exit = rc, !.speed_rc = rc]
             ELSE [ck EXCEPT !.pc = "lanes", !.idx = 1, !.findings = (rc = ExitFindings),
                             !.speed_rc = rc]
    /\ UNCHANGED <<graphVars, policyVars, auditVars, sideVars, breakerVars>>

\* An optional lane whose failure counts as a finding.
optional_exit_strict(rc) == IF rc = ExitOk THEN ExitOk ELSE ExitFindings

\* cli.py:360-376, 408-412: the code an optional lane contributes: its own when it
\* is 0 or 3, and 0 for any other.
optional_exit(rc) == IF rc \in {ExitOk, ExitFindings} THEN rc ELSE ExitOk

\* cli.py:1549-1561, 1615-1625 with 330-376, 379-412: the next optional lane.  A lane
\* that is not installed or not selected is not run and contributes 0.  lane_rcs
\* keeps the exit codes the lanes that ran ended with.
RunLane(rc) ==
    /\ ck.pc = "lanes"
    /\ ck.idx <= Len(ck.ordered_plugins)
    /\ LET plugin == ck.ordered_plugins[ck.idx]
           ran == plugin \in ck.installed /\ plugin \in ck.selected
       IN /\ laneRuns' = IF ran
                         THEN Append(laneRuns, LaneRun(plugin, ck.effective_mode,
                                                       ck.force_write_log,
                                                       ck.effective_force_create_followups))
                         ELSE laneRuns
          /\ ck' = [ck EXCEPT !.idx = @ + 1,
                              !.findings = @ \/ (ran /\ optional_exit(rc) = ExitFindings),
                              !.lane_rcs = IF ran THEN @ \cup {rc} ELSE @]
    /\ UNCHANGED <<graphVars, policyVars, auditVars, sideVars, breakerVars>>

\* cli.py:1563-1604, 1627-1631: the exit code, and the breaker task in breaker mode.
CheckFinish ==
    /\ ck.pc = "lanes"
    /\ ck.idx > Len(ck.ordered_plugins)
    /\ ck' = [ck EXCEPT !.pc = "done",
                        !.exit = IF ck.findings THEN ExitFindings ELSE ExitOk]
    /\ tasks' = IF ck.findings /\ ck.mode = "breaker"
                THEN EnsureInStore(tasks, BreakerTask(ck.task_id, now))
                ELSE tasks
    /\ UNCHANGED <<laneRuns, now, queueLimit, queueOut, checkedId, gatePolicy, verdict,
                   policyVars, auditVars, sideVars, breakerVars>>


(***************************************************************************)
(* SpecCheck: check invocations over policy files, graphs and arguments    *)
(***************************************************************************)
CheckModes == {"observe", "advise", "redirect", "heal", "breaker"}

CheckFile(mode, block, create_followup) ==
    [state |-> "parsed",
     data |-> [EmptyData EXCEPT !.mode = mode,
                                !.block_followup_creation = TBool(block),
                                !.create_followup = TBool(create_followup)]]

\* A file whose loop_safety.max_redrift_depth is a word, not a number.
UnreadableLimitFile ==
    [state |-> "parsed", data |-> [EmptyData EXCEPT !.max_redrift_depth = TWord]]

CheckFiles ==
    {CheckFile(m, b, c) : m \in CheckModes, b \in BOOLEAN, c \in BOOLEAN}
        \cup {UnreadableLimitFile}

\* A graph with one open follow-up, and one in which it and its blocker block each
\* other.
QuietGraph == <<MkTask(1, "none", "open", <<>>)>>
CycleGraph == <<MkTask(1, "none", "open", <<PoolId(2)>>),
                MkTask(2, "none", "open", <<PoolId(1)>>)>>

CheckIds == {<<"drift-", "x">>, <<"redrift-", "redrift-", "redrift-", "app">>}

AllLanes == {"coredrift"} \cup {OPTIONAL_PLUGINS[k] : k \in 1..Len(OPTIONAL_PLUGINS)}
SelectedChoices == {{}, {"specdrift", "therapydrift"}, AllLanes \ {"coredrift"}}
InstalledChoices == {AllLanes, AllLanes \ {"coredrift"}}
LaneExitCodes == {0, 1, 3}

InitCheck ==
    /\ BreakerIdle /\ AuditIdle /\ SideIdle
    /\ polFile \in CheckFiles /\ polResult = NoPolicy
    /\ tasks \in {QuietGraph, CycleGraph}
    /\ now = 7
    /\ queueLimit = 0 /\ queueOut = NoQueue
    /\ checkedId = NoId /\ gatePolicy = DefaultPolicy /\ verdict = NoVerdict
    /\ ck = NoCheck /\ laneRuns = <<>>

NextCheck ==
    \/ \E task_id \in CheckIds, write_log \in BOOLEAN, create_followups \in BOOLEAN,
          json \in BOOLEAN, selected \in SelectedChoices, installed \in InstalledChoices,
          has_updates \in BOOLEAN :
          CheckStart(task_id, write_log, create_followups, json, selected, installed,
                     has_updates)
    \/ \E rc \in LaneExitCodes : RunCoredrift(rc)
    \/ \E rc \in LaneExitCodes : RunLane(rc)
    \/ CheckFinish

SpecCheck == InitCheck /\ [][NextCheck]_vars

\* The mode table as section 4.7 of the specification states it.
TableWriteLog(mode) == mode # "observe"
TableCreate(mode, lane) == mode = "redirect" \/ (mode = "heal" /\ lane = "therapydrift")

\* C2: whenever the verdict of the invocation has followups_blocked, no lane is run
\* with --create-followups, in every mode and whatever the operator passed.
C2_BlockedNeverCreates ==
    \A k \in 1..Len(laneRuns) :
        ("loop_safety" \in DOMAIN ck /\ ck.loop_safety.followups_blocked)
            => ~laneRuns[k].create_followups

\* C6 as claimed: every lane receives exactly the mode table's flags for the
\* effective mode.
C6_FlagsAreModeTable ==
    \A k \in 1..Len(laneRuns) :
        /\ laneRuns[k].write_log = TableWriteLog(ck.effective_mode)
        /\ laneRuns[k].create_followups = TableCreate(ck.effective_mode, laneRuns[k].lane)

\* C6 (amended): every lane receives the mode table's flags for the effective mode,
\* each or-ed with the flag the operator passed (--create-followups counting only
\* when loop safety has not downgraded the mode): exactly the table's flags when the
\* operator passed neither.
C6_FlagsAreModeTableOrForced ==
    \A k \in 1..Len(laneRuns) :
        LET downgraded == ck.loop_safety.followups_blocked
                            /\ ck.mode \notin {"observe", "advise"}
        IN /\ laneRuns[k].write_log
                = (TableWriteLog(ck.effective_mode) \/ ck.force_write_log)
           /\ laneRuns[k].create_followups
                = (TableCreate(ck.effective_mode, laneRuns[k].lane)
                     \/ (ck.force_create_followups /\ ~downgraded))

\* An observe-mode check without forced flags ran coredrift and an optional lane.
C6_Witness ==
    /\ Len(laneRuns) >= 2
    /\ ck.effective_mode = "observe"
    /\ ~ck.force_write_log /\ ~ck.force_create_followups
    /\ \A k \in 1..Len(laneRuns) : ~laneRuns[k].write_log /\ ~laneRuns[k].create_followups

\* C7: _mode_flags gives observe (F,F), advise (T,F), redirect (T,T), heal (T,T) for
\* therapydrift and (T,F) for every other lane, breaker (T,F).
C7_ModeTable ==
    \A k \in 1..Len(laneRuns) :
        laneRuns[k].base =
            CASE laneRuns[k].mode = "observe" -> Flags(FALSE, FALSE)
              [] laneRuns[k].mode = "advise" -> Flags(TRUE, FALSE)
              [] laneRuns[k].mode = "redirect" -> Flags(TRUE, TRUE)
              [] laneRuns[k].mode = "heal" /\ laneRuns[k].lane = "therapydrift"
                    -> Flags(TRUE, TRUE)
              [] laneRuns[k].mode = "heal" /\ laneRuns[k].lane # "therapydrift"
                    -> Flags(TRUE, FALSE)
              [] laneRuns[k].mode = "breaker" -> Flags(TRUE, FALSE)

\* A heal-mode check ran therapydrift with (T,T) and another lane with (T,F).
C7_Witness ==
    /\ \E k \in 1..Len(laneRuns) :
          /\ laneRuns[k].mode = "heal" /\ laneRuns[k].lane = "therapydrift"
          /\ laneRuns[k].base = Flags(TRUE, TRUE)
    /\ \E k \in 1..Len(laneRuns) :
          /\ laneRuns[k].mode = "heal" /\ laneRuns[k].lane = "specdrift"
          /\ laneRuns[k].base = Flags(TRUE, FALSE)


(***************************************************************************)
(* cli.py: _ensure_breaker_task against the task store                     *)
(***************************************************************************)
MaxCalls == 3
MaxClock == 2

\* The task store's contract: show_task answers Task or NotFound, create_task is
\* refused when the id already exists.
show_task_found(ts, id) == HasTask(ts, id)
create_task_refused(ts, task) == HasTask(ts, task.id)

\* A lookup that never finds the breaker task.
breaker_lookup_never(ts, task_id) == FALSE

\* cli.py:442-449: `wg show <breaker_id>` succeeded.
breaker_lookup(ts, task_id) == show_task_found(ts, BreakerId(task_id))

\* A breaker task whose id carries the triggering time.
BreakerTaskStamped(task_id, clock) ==
    [BreakerTask(task_id, clock) EXCEPT !.id = <<"drift-", "breaker-", ToString(clock)>> \o task_id]

\* cli.py:466-484: what `wg add` is handed.
breaker_add_request(task_id, clock) == BreakerTask(task_id, clock)

Callers == 1..Len(bpc)
Finished(c) == bpc[c] \in {"returned", "raised"}

\* cli.py:436: a caller enters _ensure_breaker_task.
BreakerCall(task_id) ==
    /\ calls < MaxCalls
    /\ calls' = calls + 1
    /\ bpc' = Append(bpc, "show")
    /\ barg' = Append(barg, task_id)
    /\ bret' = Append(bret, NoId)
    /\ UNCHANGED <<createReqs, graphVars, policyVars, auditVars, sideVars, checkVars>>

\* The same, once every earlier call has come back.
BreakerCallInTurn(task_id) ==
    /\ \A c \in Callers : Finished(c)
    /\ BreakerCall(task_id)

\* cli.py:442-451: the lookup; found returns the derived id, anything else falls
\* through to the create.
BreakerShow(c) ==
    /\ bpc[c] = "show"
    /\ IF breaker_lookup(tasks, barg[c])
       THEN /\ bpc' = [bpc EXCEPT ![c] = "returned"]
            /\ bret' = [bret EXCEPT ![c] = BreakerId(barg[c])]
       ELSE /\ bpc' = [bpc EXCEPT ![c] = "add"]
            /\ UNCHANGED bret
    /\ UNCHANGED <<barg, createReqs, calls, graphVars, policyVars, auditVars, sideVars, checkVars>>

\* cli.py:453-485: the create request; check_call raises when `wg add` is refused,
\* and neither this function nor cmd_check (cli.py:1600-1602, 1627-1630) catches it.
BreakerAdd(c) ==
    /\ bpc[c] = "add"
    /\ LET task == breaker_add_request(barg[c], now)
       IN /\ createReqs' = Append(createReqs, task.id)
          /\ IF create_task_refused(tasks, task)
             THEN /\ bpc' = [bpc EXCEPT ![c] = "raised"]
                  /\ UNCHANGED <<tasks, bret>>
             ELSE /\ bpc' = [bpc EXCEPT ![c] = "returned"]
                  /\ bret' = [bret EXCEPT ![c] = BreakerId(barg[c])]
                  /\ tasks' = Append(tasks, task)
    /\ UNCHANGED <<barg, calls, now, queueLimit, queueOut, checkedId, gatePolicy, verdict,
                   policyVars, auditVars, sideVars, checkVars>>

\* Time passes between the steps of the callers.
Tick ==
    /\ now < MaxClock
    /\ now' = now + 1
    /\ UNCHANGED <<tasks, queueLimit, queueOut, checkedId, gatePolicy, verdict, policyVars, auditVars, sideVars,
                   checkVars, breakerVars>>

BreakerOrigins == {<<"t1">>, <<"drift-", "x">>}

InitBreaker ==
    /\ PolicyIdle /\ CheckIdle /\ BreakerIdle /\ AuditIdle /\ SideIdle
    /\ tasks \in {<<>>, QuietGraph}
    /\ now = 0
    /\ queueLimit = 0 /\ queueOut = NoQueue
    /\ checkedId = NoId /\ gatePolicy = DefaultPolicy /\ verdict = NoVerdict

NextBreakerSeq ==
    \/ \E task_id \in BreakerOrigins : BreakerCallInTurn(task_id)
    \/ \E c \in Callers : BreakerShow(c)
    \/ \E c \in Callers : BreakerAdd(c)
    \/ Tick

SpecBreakerSeq == InitBreaker /\ [][NextBreakerSeq]_vars

NextBreaker ==
    \/ \E task_id \in BreakerOrigins : BreakerCall(task_id)
    \/ \E c \in Callers : BreakerShow(c)
    \/ \E c \in Callers : BreakerAdd(c)
    \/ Tick

SpecBreaker == InitBreaker /\ [][NextBreaker]_vars

CreateCount(id) == Cardinality({k \in 1..Len(createReqs) : createReqs[k] = id})
BreakerTasksFor(origin) ==
    {k \in 1..Len(tasks) : "breaker" \in tasks[k].tags /\ tasks[k].blocked_by = <<origin>>}

\* C1: calls of _ensure_breaker_task made one after another for one origin all return
\* the derived breaker id, and together issue exactly one create request.
C1_SequentialCallsCreateOnce ==
    \A c \in Callers :
        Finished(c) =>
            /\ bpc[c] = "returned"
            /\ bret[c] = BreakerId(barg[c])
            /\ CreateCount(BreakerId(barg[c])) = 1

\* Three calls for t1 have come back, after one create request.
C1_Witness ==
    /\ Len(bpc) = 3
    /\ \A c \in Callers : barg[c] = <<"t1">> /\ bpc[c] = "returned"
    /\ CreateCount(BreakerId(<<"t1">>)) = 1

\* C3: with a store that refuses a create for an existing id, concurrent calls for
\* one origin leave exactly one breaker task for it in the store.
C3_ConcurrentCallsOneBreakerTask ==
    \A origin \in BreakerOrigins :
        /\ Cardinality(BreakerTasksFor(origin)) <= 1
        /\ (\E c \in Callers : barg[c] = origin /\ Finished(c))
              => Cardinality(BreakerTasksFor(origin)) = 1

\* Two callers for t1 both missed on lookup and both asked for the create.
C3_Witness ==
    /\ CreateCount(BreakerId(<<"t1">>)) = 2
    /\ \A c \in Callers : barg[c] = <<"t1">> /\ Finished(c)
    /\ Cardinality(BreakerTasksFor(<<"t1">>)) = 1

\* C4: a caller whose create is refused because the id now exists does not end in an
\* unhandled error.
C4_LostRaceNotFatal == \A c \in Callers : bpc[c] # "raised"


(***************************************************************************)
(* SpecCycle: detect_cycle_from on small blocked-by graphs                 *)
(***************************************************************************)
MaxEdges == 4

RECURSIVE EdgeCount(_)
EdgeCount(ts) ==
    IF Len(ts) = 0 THEN 0
    ELSE Len(ts[Len(ts)].blocked_by) + EdgeCount(SubSeq(ts, 1, Len(ts) - 1))

\* The graph before any blocked_by is recorded: MaxTasks open tasks.
UnlinkedGraph == [i \in 1..MaxTasks |-> MkTask(i, "none", "open", <<>>)]

GraphIds(ts) == {ts[i].id : i \in 1..Len(ts)}

\* The start ids detect_cycle_from is asked about: every task, an id the graph
\* does not hold, and the empty id.
ProbeIds(ts) == GraphIds(ts) \cup {GhostId, NoId}

\* `wg add --blocked-by` / an edit of graph.jsonl: task a gains blocker b.
WithBlocker(ts, a, b) == [ts EXCEPT ![a].blocked_by = Append(@, b)]

HasBlocker(ts, a, b) == \E k \in 1..Len(ts[a].blocked_by) : ts[a].blocked_by[k] = b

ScanAll(ts) == [id \in ProbeIds(ts) |-> cycle_walk(id, ts)]

\* Blocked-by edges between tasks of the graph, and what they reach.
SuccessorsOf(ts, set) ==
    UNION {{ts[i].blocked_by[k] : k \in 1..Len(ts[i].blocked_by)} :
               i \in {j \in 1..Len(ts) : ts[j].id \in set}}
        \cap GraphIds(ts)

RECURSIVE Closure(_, _)
Closure(ts, set) ==
    LET next == set \cup SuccessorsOf(ts, set)
    IN IF next = set THEN set ELSE Closure(ts, next)

\* Ids reachable from id over one or more edges.
ReachFrom(ts, id) == Closure(ts, SuccessorsOf(ts, {id}))
OnLoop(ts, id) == id \in ReachFrom(ts, id)
Acyclic(ts) == \A id \in GraphIds(ts) : ~OnLoop(ts, id)
ReachesLoop(ts, id) == \E x \in GraphIds(ts) : OnLoop(ts, x) /\ (x = id \/ x \in ReachFrom(ts, id))

LinkBlocker(a, b) ==
    /\ ~cycleOut.done
    /\ EdgeCount(tasks) < MaxEdges
    /\ ~HasBlocker(tasks, a, b)
    /\ tasks' = WithBlocker(tasks, a, b)
    /\ UNCHANGED <<now, queueLimit, queueOut, checkedId, gatePolicy, verdict, policyVars,
                   checkVars, breakerVars, auditVars, sideVars>>

\* detect_cycle_from is called for every start id on the graph as it stands.
ScanCycles ==
    /\ ~cycleOut.done
    /\ cycleOut' = [done |-> TRUE, closed |-> FALSE, edge |-> <<>>,
                    before |-> ScanAll(tasks), after |-> ScanAll(tasks)]
    /\ UNCHANGED <<graphVars, policyVars, checkVars, breakerVars, dupOut, board, plan, sideVars>>

\* A graph without a cycle gains the one edge that closes a loop, and
\* detect_cycle_from is called for every start id before and after.
CloseLoop(a, b) ==
    /\ ~cycleOut.done
    /\ EdgeCount(tasks) < MaxEdges
    /\ Acyclic(tasks)
    /\ ~HasBlocker(tasks, a, b)
    /\ b = tasks[a].id \/ tasks[a].id \in ReachFrom(tasks, b)
    /\ tasks' = WithBlocker(tasks, a, b)
    /\ cycleOut' = [done |-> TRUE, closed |-> TRUE, edge |-> <<tasks[a].id, b>>,
                    before |-> ScanAll(tasks), after |-> ScanAll(tasks')]
    /\ UNCHANGED <<now, queueLimit, queueOut, checkedId, gatePolicy, verdict, policyVars,
                   checkVars, breakerVars, dupOut, board, plan, sideVars>>

InitCycle ==
    /\ PolicyIdle /\ CheckIdle /\ BreakerIdle /\ AuditIdle /\ SideIdle
    /\ tasks = UnlinkedGraph
    /\ now = 0
    /\ queueLimit = 0 /\ queueOut = NoQueue
    /\ checkedId = NoId /\ gatePolicy = DefaultPolicy /\ verdict = NoVerdict

NextCycle ==
    \/ \E a \in 1..MaxTasks, b \in GraphIds(tasks) \cup {GhostId} : LinkBlocker(a, b)
    \/ ScanCycles
    \/ \E a \in 1..MaxTasks, b \in GraphIds(tasks) : CloseLoop(a, b)

SpecCycle == InitCycle /\ [][NextCycle]_vars

NoRepeat(seq) == \A i, j \in 1..Len(seq) : seq[i] = seq[j] => i = j

\* C11 as claimed: after the edge that closes a loop on a cycle-free graph,
\* detect_cycle_from is true for exactly the ids on the loop.
C11_ExactlyLoopIdsFlip ==
    (cycleOut.done /\ cycleOut.closed) =>
        \A id \in ProbeIds(tasks) :
            /\ ~cycleOut.before[id].found
            /\ cycleOut.after[id].found <=> OnLoop(tasks, id)

\* C11 (amended): on a cycle-free graph detect_cycle_from is false for every id; after
\* the edge that closes a loop it is true for exactly the ids on the loop and the ids
\* that reach the loop over blocked-by edges, and false for every other id.
C11_LoopAndDependentsFlip ==
    (cycleOut.done /\ cycleOut.closed) =>
        \A id \in ProbeIds(tasks) :
            /\ ~cycleOut.before[id].found
            /\ cycleOut.after[id].found <=> ReachesLoop(tasks, id)

\* A loop was closed; one task on it, one blocked by it, and an id besides.
C11_Witness ==
    /\ cycleOut.done /\ cycleOut.closed
    /\ \E x, y \in GraphIds(tasks) :
          /\ OnLoop(tasks, x) /\ cycleOut.after[x].found
          /\ ~OnLoop(tasks, y) /\ x \in ReachFrom(tasks, y) /\ cycleOut.after[y].found
    /\ ~cycleOut.after[GhostId].found

\* C12: detect_cycle_from is true for every start id that lies on a blocked-by cycle,
\* and false for every start id when the graph has no cycle.
C12_NoCycleMissedNoFalseAlarm ==
    cycleOut.done =>
        /\ \A id \in GraphIds(tasks) : OnLoop(tasks, id) => cycleOut.after[id].found
        /\ Acyclic(tasks) => \A id \in ProbeIds(tasks) : ~cycleOut.after[id].found

\* A scan of a graph whose three tasks form one loop.
C12_Witness ==
    /\ cycleOut.done /\ ~cycleOut.closed
    /\ \A id \in GraphIds(tasks) :
          /\ OnLoop(tasks, id) /\ cycleOut.after[id].found
          /\ Cardinality(ReachFrom(tasks, id)) = MaxTasks

\* C13: every detect_cycle_from call ends having visited no id twice; blockers missing
\* from the index change no answer, and an empty or unknown start id gives false.
C13_VisitsOnceUnknownInert ==
    cycleOut.done =>
        /\ \A id \in ProbeIds(tasks) :
              /\ NoRepeat(cycleOut.after[id].order)
              /\ cycleOut.after[id].found = ReachesLoop(tasks, id)
        /\ ~cycleOut.after[GhostId].found
        /\ ~cycleOut.after[NoId].found

\* A scan of a graph where one task is reached along two paths and another is blocked
\* by an id the graph does not hold.
C13_Witness ==
    /\ cycleOut.done
    /\ \E a, b, c \in 1..Len(tasks) :
          /\ a # b /\ b # c /\ a # c
          /\ HasBlocker(tasks, a, tasks[b].id)
          /\ HasBlocker(tasks, a, tasks[c].id)
          /\ HasBlocker(tasks, b, tasks[c].id)
          /\ \E d \in 1..Len(tasks) : HasBlocker(tasks, d, GhostId)
          /\ Len(cycleOut.after[tasks[a].id].order) = 4
          /\ ~cycleOut.after[tasks[a].id].found


(***************************************************************************)
(* SpecRank: rank_ready_drift_queue on ready follow-ups of every tier      *)
(***************************************************************************)
MaxRanked == 3
DEFAULT_LIMIT == 10

RankTask(id, title, tags, created_at) ==
    [id |-> id, title |-> title, status |-> "open", tags |-> tags, blocked_by |-> <<>>,
     created_at |-> created_at, not_before |-> NoTime, description |-> {}]

\* Ready follow-ups a store may hold, of every tier, some created in the same second.
RankPool ==
    <<RankTask(<<"drift-", "breaker-", "t1">>, <<"breaker:", "t1">>, {"drift", "breaker"}, Time(2)),
      RankTask(<<"drift-", "breaker-", "t2">>, <<"missing_contract">>, {"drift"}, Time(1)),
      RankTask(<<"coredrift-", "pit-", "t1">>, <<"pit-stop:", "t1">>, {}, Time(1)),
      RankTask(<<"drift-", "harden-", "t1">>, <<"missing_contract">>, {}, Time(1)),
      RankTask(<<"drift-", "harden-", "t2">>, <<"harden:", "t2">>, {}, NoTime),
      RankTask(<<"drift-", "fix-", "t1">>, <<"fix:", "t1">>, {}, BadTime),
      RankTask(<<"drift-", "scope-", "t1">>, <<"scope:", "t1">>, {}, TimeMs(1, 900)),
      RankTask(<<"drift-", "scope-", "t2">>, <<"scope:", "t2">>, {}, TimeMs(1, 100)),
      RankTask(<<"redrift-", "app">>, <<"redrift build:", "app">>, {}, Time(1)),
      RankTask(<<"t1">>, <<"widget">>, {"drift"}, NoTime),
      RankTask(<<"t2">>, <<"Drift", "report">>, {}, BadTime)>>

\* The store gains one more follow-up of the pool, in any order.
AddRanked(k) ==
    /\ ~queueOut.done
    /\ Len(tasks) < MaxRanked
    /\ ~HasTask(tasks, RankPool[k].id)
    /\ tasks' = Append(tasks, RankPool[k])
    /\ UNCHANGED <<now, queueLimit, queueOut, checkedId, gatePolicy, verdict, policyVars,
                   checkVars, breakerVars, auditVars, sideVars>>

InitRank ==
    /\ PolicyIdle /\ CheckIdle /\ BreakerIdle /\ AuditIdle /\ SideIdle
    /\ tasks = <<>>
    /\ now = 7
    /\ queueLimit = 0 /\ queueOut = NoQueue
    /\ checkedId = NoId /\ gatePolicy = DefaultPolicy /\ verdict = NoVerdict

NextRank ==
    \/ \E k \in 1..Len(RankPool) : AddRanked(k)
    \/ \E limit \in {0, MaxLimit, DEFAULT_LIMIT} : RankQueue(limit)

SpecRank == InitRank /\ [][NextRank]_vars

Reordered(ts, f) == [i \in 1..Len(ts) |-> ts[f[i]]]

\* C14: every reordering of the input list gives the same output sequence as the
\* list itself.
C14_OutputIndependentOfInputOrder ==
    queueOut.done =>
        \A f \in Permutations(1..Len(tasks)) :
            rank_ready_drift_queue(Reordered(tasks, f), queueLimit, now) = queueOut.out

\* Two follow-ups of one tier and one epoch were handed over in descending id order
\* and came out in ascending id order.
C14_Witness ==
    /\ queueOut.done
    /\ \E i, j \in 1..Len(tasks) :
          /\ i < j
          /\ queue_priority(tasks[i]) = queue_priority(tasks[j])
          /\ task_epoch(tasks[i]) = task_epoch(tasks[j])
          /\ IdLess(tasks[j].id, tasks[i].id)
          /\ \E a, b \in 1..Len(queueOut.out) :
                /\ a < b
                /\ queueOut.out[a].task_id = tasks[j].id
                /\ queueOut.out[b].task_id = tasks[i].id

\* The creation time of an entry: nothing or unparsable counts as the epoch.
StampOf(entry) ==
    IF entry.created_at.k = "ts" THEN <<entry.created_at.n, entry.created_at.ms>> ELSE <<0, 0>>
Earlier(s, t) == s[1] < t[1] \/ (s[1] = t[1] /\ s[2] < t[2])

TierOf(entry) ==
    CASE StartsWith(entry.task_id, <<"drift-", "breaker-">>) -> 100
      [] StartsWith(entry.task_id, <<"coredrift-", "pit-">>) -> 90
      [] "missing_contract" \in {entry.title[k] : k \in 1..Len(entry.title)} -> 85
      [] StartsWith(entry.task_id, <<"drift-", "harden-">>) -> 80
      [] StartsWith(entry.task_id, <<"drift-", "fix-">>) -> 75
      [] StartsWith(entry.task_id, <<"drift-", "scope-">>) -> 70
      [] StartsWith(entry.task_id, <<"redrift-">>) -> 60
      [] OTHER -> 50

\* C15: an entry placed before another has the higher tier, or the same tier and the
\* earlier creation time, or the same tier and time and the smaller id; the tier is
\* the highest matching row of the tier table.
C15_OrderedByTierTimeId ==
    queueOut.done =>
        /\ \A a \in 1..Len(queueOut.out) : queueOut.out[a].priority = TierOf(queueOut.out[a])
        /\ \A a, b \in 1..Len(queueOut.out) :
              a < b =>
                LET x == queueOut.out[a]
                    y == queueOut.out[b]
                IN \/ x.priority > y.priority
                   \/ /\ x.priority = y.priority
                      /\ \/ Earlier(StampOf(x), StampOf(y))
                         \/ (StampOf(x) = StampOf(y) /\ IdLess(x.task_id, y.task_id))


(***************************************************************************)
(* health.py: the duplicate grouper                                        *)
(***************************************************************************)
\* str.lower() on one title token.
LowerTok(tok) ==
    CASE tok = "App" -> "app"
      [] tok = "Widget" -> "widget"
      [] tok \in {"Drift", "DRIFT"} -> "drift"
      [] tok = "Redrift Exec:" -> "redrift exec:"
      [] tok = "Stage-B:" -> "stage-b:"
      [] OTHER -> tok

Lower(title) == [i \in 1..Len(title) |-> LowerTok(title[i])]

\* health.py:14 _REDRIFT_PREFIX_RE: the lower-cased segments the pattern
\* "redrift (analyze|respec|design|build|execute|exec):" matches.
RedriftStageTokens == {"redrift analyze:", "redrift respec:", "redrift design:",
                       "redrift build:", "redrift execute:", "redrift exec:"}

\* A title token that is a run of extra whitespace.
Blank(tok) == tok = "_"

\* health.py:14: one segment of the leading prefix the pattern removes.
StagePrefix(tok) == tok \in RedriftStageTokens

\* health.py:98: _REDRIFT_PREFIX_RE.sub("", title): leading segments, each with the
\* whitespace after it, are removed.
RECURSIVE StripStagePrefixes(_)
StripStagePrefixes(title) ==
    IF Len(title) > 0 /\ StagePrefix(Head(title))
    THEN LET rest == Tail(title)
         IN StripStagePrefixes(IF Len(rest) > 0 /\ Blank(Head(rest)) THEN Tail(rest) ELSE rest)
    ELSE title

\* health.py:95, 99: strip() and the collapse of whitespace runs.
CollapseBlanks(title) == SelectSeq(title, LAMBDA tok : ~Blank(tok))

\* health.py:94-100
normalize_drift_key(task) ==
    LET title == CollapseBlanks(StripStagePrefixes(Lower(CollapseBlanks(task.title))))
    IN IF Len(title) > 0 THEN title ELSE task.id

\* health.py:105-113: the tasks that are grouped, in input order.
Grouped(ts) == SelectSeq(ts, LAMBDA t : is_drift_task(t) /\ is_active(t)
                                        /\ Len(normalize_drift_key(t)) > 0)

\* Every task of the list has a key of its own, so that no group has two members
\* (health.py:116-117 and cli.py:1029-1030 pass over a group of one).
NoKeyTwice(gs) ==
    Cardinality({normalize_drift_key(gs[i]) : i \in 1..Len(gs)}) = Len(gs)

\* health.py:113: the keys of the groups dict, in order of first insertion.
RECURSIVE GroupKeys(_, _)
GroupKeys(gs, acc) ==
    IF Len(gs) = 0 THEN acc
    ELSE LET key == normalize_drift_key(Head(gs))
         IN GroupKeys(Tail(gs), IF \E k \in 1..Len(acc) : acc[k] = key
                                THEN acc ELSE Append(acc, key))

\* health.py:119-125: one group record.
GroupOf(gs, key) ==
    LET members == SelectSeq(gs, LAMBDA t : normalize_drift_key(t) = key)
    IN [key |-> key, count |-> Len(members),
        task_ids |-> [i \in 1..Len(members) |-> members[i].id]]

\* health.py:126: the sort key (-count, key).
GroupLess(g, h) == g.count > h.count \/ (g.count = h.count /\ IdLess(g.key, h.key))

RECURSIVE InsertGroup(_, _)
InsertGroup(sorted, g) ==
    IF Len(sorted) = 0 THEN <<g>>
    ELSE IF GroupLess(g, Head(sorted)) THEN <<g>> \o sorted
    ELSE <<Head(sorted)>> \o InsertGroup(Tail(sorted), g)

RECURSIVE SortGroups(_, _)
SortGroups(gs, i) == IF i = 0 THEN <<>> ELSE InsertGroup(SortGroups(gs, i - 1), gs[i])

\* health.py:103-127
find_duplicate_open_drift_groups(ts) ==
    LET gs == Grouped(ts)
        keys == GroupKeys(gs, <<>>)
        all == [i \in 1..Len(keys) |-> GroupOf(gs, keys[i])]
        out == SelectSeq(all, LAMBDA g : g.count > 1)
    IN IF NoKeyTwice(gs) THEN <<>> ELSE SortGroups(out, Len(out))


(***************************************************************************)
(* SpecDup: find_duplicate_open_drift_groups on small task lists           *)
(***************************************************************************)
MaxDupTasks == 4

DupTask(id, title, status, tags) ==
    [id |-> id, title |-> title, status |-> status, tags |-> tags, blocked_by |-> <<>>,
     created_at |-> NoTime, not_before |-> NoTime, description |-> {}]

\* Follow-ups whose titles repeat a base title under different stage prefixes, letter
\* case and spacing, beside a finished, an abandoned and a non-drift task.
DupPool ==
    <<DupTask(<<"drift-", "t1">>, <<"stage-a:", "Widget">>, "open", {}),
      DupTask(<<"drift-", "t2">>, <<"Stage-B:", "Widget">>, "open", {}),
      DupTask(<<"redrift-", "t1">>, <<"redrift build:", "redrift analyze:", "App">>, "open", {}),
      DupTask(<<"redrift-", "t2">>, <<"redrift design:", "redrift analyze:", "App">>,
              "in-progress", {}),
      DupTask(<<"drift-", "t3">>, <<"Redrift Exec:", "_", "app">>, "open", {}),
      DupTask(<<"drift-", "x">>, <<>>, "open", {}),
      DupTask(<<"t1">>, <<"app">>, "open", {"docs"}),
      DupTask(<<"drift-", "fix-", "t1">>, <<"app">>, "done", {}),
      DupTask(<<"drift-", "fix-", "t2">>, <<"widget">>, "abandoned", {}),
      DupTask(<<"drift-", "harden-", "t1">>, <<"Widget">>, "open", {}),
      DupTask(<<"t2">>, <<"widget">>, "open", {"drift"})>>

AddDupTask(k) ==
    /\ ~dupOut.done
    /\ Len(tasks) < MaxDupTasks
    /\ ~HasTask(tasks, DupPool[k].id)
    /\ tasks' = Append(tasks, DupPool[k])
    /\ UNCHANGED <<now, queueLimit, queueOut, checkedId, gatePolicy, verdict, policyVars,
                   checkVars, breakerVars, auditVars, sideVars>>

\* One call find_duplicate_open_drift_groups(tasks).
FindDuplicates ==
    /\ ~dupOut.done
    /\ dupOut' = [done |-> TRUE, out |-> find_duplicate_open_drift_groups(tasks)]
    /\ UNCHANGED <<graphVars, policyVars, checkVars, breakerVars, cycleOut, board, plan, sideVars>>

InitDup ==
    /\ PolicyIdle /\ CheckIdle /\ BreakerIdle /\ AuditIdle /\ SideIdle
    /\ tasks = <<>>
    /\ now = 0
    /\ queueLimit = 0 /\ queueOut = NoQueue
    /\ checkedId = NoId /\ gatePolicy = DefaultPolicy /\ verdict = NoVerdict

NextDup == (\E k \in 1..Len(DupPool) : AddDupTask(k)) \/ FindDuplicates

SpecDup == InitDup /\ [][NextDup]_vars

\* A leading "<stage>:" segment of a lower-cased title.
StageMarker(tok) == tok \in RedriftStageTokens \cup {"stage-a:", "stage-b:"}

RECURSIVE DropMarkers(_)
DropMarkers(title) ==
    IF Len(title) > 0 /\ StageMarker(Head(title)) THEN DropMarkers(Tail(title)) ELSE title

\* The lower-cased base title: blanks collapsed, stage prefixes dropped.
BaseTitle(task) == DropMarkers(Lower(SelectSeq(task.title, LAMBDA tok : tok # "_")))

Counted(task) == is_drift_task(task) /\ is_active(task)

InGroup(g, id) == \E k \in 1..Len(g.task_ids) : g.task_ids[k] = id

\* C16: two active drift tasks whose titles differ only by leading stage prefixes are
\* in one duplicate group, keyed by the lower-cased base title.
C16_StagePrefixesShareGroup ==
    dupOut.done =>
        \A i, j \in 1..Len(tasks) :
            (i # j /\ Counted(tasks[i]) /\ Counted(tasks[j])
                /\ Len(BaseTitle(tasks[i])) > 0 /\ BaseTitle(tasks[i]) = BaseTitle(tasks[j]))
              => \E g \in 1..Len(dupOut.out) :
                    /\ dupOut.out[g].key = BaseTitle(tasks[i])
                    /\ InGroup(dupOut.out[g], tasks[i].id)
                    /\ InGroup(dupOut.out[g], tasks[j].id)

MembersOf(ts, key) ==
    {ts[i].id : i \in {k \in 1..Len(ts) : Counted(ts[k]) /\ normalize_drift_key(ts[k]) = key}}
IdSet(g) == {g.task_ids[k] : k \in 1..Len(g.task_ids)}

\* C17: the output is exactly the groups of two or more active drift tasks sharing a
\* key, by descending count then ascending key, and no reordering of the input list
\* changes any of it, the order of task_ids inside a group included.
C17_GroupsExactSortedOrderFree ==
    dupOut.done =>
        /\ \A g \in 1..Len(dupOut.out) :
              /\ dupOut.out[g].count >= 2
              /\ dupOut.out[g].count = Len(dupOut.out[g].task_ids)
              /\ dupOut.out[g].count = Cardinality(IdSet(dupOut.out[g]))
              /\ IdSet(dupOut.out[g]) = MembersOf(tasks, dupOut.out[g].key)
        /\ \A i \in 1..Len(tasks) :
              (Counted(tasks[i])
                  /\ Cardinality(MembersOf(tasks, normalize_drift_key(tasks[i]))) >= 2)
                => \E g \in 1..Len(dupOut.out) :
                      dupOut.out[g].key = normalize_drift_key(tasks[i])
        /\ \A g, h \in 1..Len(dupOut.out) : g < h => GroupLess(dupOut.out[g], dupOut.out[h])
        /\ \A f \in Permutations(1..Len(tasks)) :
              find_duplicate_open_drift_groups(Reordered(tasks, f)) = dupOut.out


(***************************************************************************)
(* health.py: the scoreboard                                               *)
(***************************************************************************)
BOARD_QUEUE_LIMIT == 10000

\* round(num / den, 4), in ten-thousandths (ties go to the even digit).
RoundE4(num, den) ==
    LET q == (10000 * num) \div den
        r == (10000 * num) % den
    IN IF 2 * r > den \/ (2 * r = den /\ q % 2 = 1) THEN q + 1 ELSE q

\* A coverage that is 0 when nothing is active.
contract_coverage_zero_idle(active_with_contract, active_total) ==
    IF active_total = 0 THEN [num |-> 0, den |-> 1]
    ELSE [num |-> active_with_contract, den |-> active_total]

\* health.py:218: the ratio, 1.0 when nothing is active.
contract_coverage(active_with_contract, active_total) ==
    IF active_total = 0 THEN [num |-> 1, den |-> 1]
    ELSE [num |-> active_with_contract, den |-> active_total]

\* health.py:228: the share of active tasks that are drift tasks, 0.0 when nothing is
\* active.
active_drift_ratio(active_drift, active_total) ==
    IF active_total = 0 THEN [num |-> 0, den |-> 1]
    ELSE [num |-> active_drift, den |-> active_total]

\* health.py:220-225
max_active_redrift_depth(active_drift, i) ==
    LET depths == {redrift_depth(active_drift[k].id) :
                      k \in {j \in 1..i : StartsWith(active_drift[j].id, <<"redrift-">>)}}
                    \cup {0}
    IN CHOOSE d \in depths : \A e \in depths : e <= d

\* The watch row tested before the risk row.
board_status_watch_first(coverage, ready, max_depth, has_duplicates) ==
    IF 10 * coverage.num < 9 * coverage.den \/ ready > 8 \/ max_depth > 1 \/ has_duplicates
    THEN "watch"
    ELSE IF 10 * coverage.num < 7 * coverage.den \/ ready > 20 \/ max_depth > 2 THEN "risk"
    ELSE "healthy"

\* health.py:230-234: coverage < 0.7 and coverage < 0.9 on the quotient of two counts.
board_status(coverage, ready, max_depth, has_duplicates) ==
    IF 10 * coverage.num < 7 * coverage.den \/ ready > 20 \/ max_depth > 2 THEN "risk"
    ELSE IF 10 * coverage.num < 9 * coverage.den \/ ready > 8 \/ max_depth > 1
            \/ has_duplicates
    THEN "watch"
    ELSE "healthy"

\* health.py:210-247
compute_scoreboard(ts, clock) ==
    LET active == SelectSeq(ts, is_active)
        drift == SelectSeq(ts, is_drift_task)
        active_drift == SelectSeq(drift, is_active)
        ready == ranked_len(ts, BOARD_QUEUE_LIMIT, clock)
        active_with_contract == Len(SelectSeq(active, has_contract))
        coverage == contract_coverage(active_with_contract, Len(active))
        max_depth == max_active_redrift_depth(active_drift, Len(active_drift))
        duplicate_groups == find_duplicate_open_drift_groups(ts)
        ratio == active_drift_ratio(Len(active_drift), Len(active))
    IN [status |-> board_status(coverage, ready, max_depth, Len(duplicate_groups) > 0),
        tasks_total |-> Len(ts),
        active_tasks |-> Len(active),
        drift_total |-> Len(drift),
        active_drift |-> Len(active_drift),
        ready_drift |-> ready,
        active_contract_coverage |-> RoundE4(coverage.num, coverage.den),
        active_drift_ratio |-> RoundE4(ratio.num, ratio.den),
        max_redrift_depth |-> max_depth,
        duplicate_open_drift_groups |-> duplicate_groups]


(***************************************************************************)
(* SpecBoard: compute_scoreboard on graphs around its thresholds           *)
(***************************************************************************)
BoardTask(id, title, status, blocked_by, contract) ==
    [id |-> id, title |-> title, status |-> status, tags |-> {}, blocked_by |-> blocked_by,
     created_at |-> NoTime, not_before |-> NoTime,
     description |-> IF contract THEN {"wg-contract"} ELSE {}]

\* r ready follow-ups, each with a contract and a title of its own.
ReadyFollowups(r) ==
    [i \in 1..r |-> BoardTask(<<"drift-", "fix-", ToString(i)>>, <<"fix:", ToString(i)>>,
                              "open", <<>>, TRUE)]

\* n open tasks that are no drift tasks, with or without a contract.
PlainTasks(n, contract) ==
    [i \in 1..n |-> BoardTask(<<IF contract THEN "task-" ELSE "bare-", ToString(i)>>,
                              <<"notes">>, "open", <<>>, contract)]

\* n finished or abandoned tasks without a contract; the first is a drift task.
ClosedTasks(n) ==
    [i \in 1..n |-> BoardTask(<<IF i = 1 THEN "drift-" ELSE "old-", ToString(i)>>, <<"notes">>,
                              IF i = 1 THEN "abandoned" ELSE "done", <<>>, FALSE)]

\* Two blocked follow-ups whose titles normalize to one key.
DuplicatePair ==
    <<BoardTask(<<"drift-", "t1">>, <<"App">>, "open", <<GhostId>>, TRUE),
      BoardTask(<<"drift-", "t2">>, <<"redrift build:", "app">>, "in-progress", <<GhostId>>, TRUE)>>

\* One blocked task whose id holds "redrift-" depth times, behind `lead` if given.
DeepTask(lead, depth, status) ==
    <<BoardTask(lead \o [i \in 1..depth |-> "redrift-"] \o <<"app">>, <<"deep">>, status,
                <<GhostId>>, TRUE)>>

DeepChoices ==
    {<<>>} \cup {DeepTask(<<>>, d, "open") : d \in 1..3}
           \cup {DeepTask(<<>>, 3, "done"), DeepTask(<<"drift-">>, 3, "open")}

BoardGraphs ==
    {ReadyFollowups(r) \o PlainTasks(m, TRUE) \o PlainTasks(u, FALSE) \o deep
        \o (IF dup THEN DuplicatePair ELSE <<>>) \o ClosedTasks(x) :
        r \in {0, 8, 9, 20, 21}, m \in {0, 7, 9}, u \in {0, 1, 3, 4}, deep \in DeepChoices,
        dup \in BOOLEAN, x \in {0, 2}}

InitBoard ==
    /\ PolicyIdle /\ CheckIdle /\ BreakerIdle /\ AuditIdle /\ SideIdle
    /\ tasks \in BoardGraphs
    /\ now = 0
    /\ queueLimit = 0 /\ queueOut = NoQueue
    /\ checkedId = NoId /\ gatePolicy = DefaultPolicy /\ verdict = NoVerdict

\* One call compute_scoreboard(tasks).
ComputeBoard ==
    /\ ~board.done
    /\ board' = [done |-> TRUE, b |-> compute_scoreboard(tasks, now)]
    /\ UNCHANGED <<graphVars, policyVars, checkVars, breakerVars, cycleOut, dupOut, plan, sideVars>>

NextBoard == ComputeBoard

SpecBoard == InitBoard /\ [][NextBoard]_vars

ActiveAt(ts) == {i \in 1..Len(ts) : ts[i].status \notin {"done", "abandoned"}}
ContractAt(ts) == {i \in ActiveAt(ts) : "wg-contract" \in ts[i].description}
ReadyAt(ts, clock) == {i \in 1..Len(ts) : ReadyFilter(ts[i], ts, clock)}
DeepAt(ts, d) ==
    {i \in ActiveAt(ts) : StartsWith(ts[i].id, <<"redrift-">>) /\ redrift_depth(ts[i].id) > d}
TwinsAt(ts) ==
    {p \in ActiveAt(ts) \X ActiveAt(ts) :
        /\ p[1] # p[2]
        /\ is_drift_task(ts[p[1]]) /\ is_drift_task(ts[p[2]])
        /\ normalize_drift_key(ts[p[1]]) = normalize_drift_key(ts[p[2]])}
LowCoverage(ts, tenths) ==
    10 * Cardinality(ContractAt(ts)) < tenths * Cardinality(ActiveAt(ts))

\* C18: status is risk iff coverage < 0.70 or more than 20 ready or depth > 2; else
\* watch iff coverage < 0.90 or more than 8 ready or depth > 1 or a duplicate group
\* exists; else healthy.
C18_StatusTopDown ==
    board.done =>
        LET risk == LowCoverage(tasks, 7) \/ Cardinality(ReadyAt(tasks, now)) > 20
                      \/ DeepAt(tasks, 2) # {}
            watch == LowCoverage(tasks, 9) \/ Cardinality(ReadyAt(tasks, now)) > 8
                       \/ DeepAt(tasks, 1) # {} \/ TwinsAt(tasks) # {}
        IN board.b.status = IF risk THEN "risk" ELSE IF watch THEN "watch" ELSE "healthy"

\* A board with 21 ready follow-ups and a duplicate group reads risk.
C18_Witness ==
    /\ board.done
    /\ board.b.status = "risk"
    /\ board.b.ready_drift = 21
    /\ Len(board.b.duplicate_open_drift_groups) = 1
    /\ ~LowCoverage(tasks, 7)

\* C19: with no active task the board shows coverage 1.0, no ready follow-up and
\* status healthy.
C19_IdleBoardHealthy ==
    (board.done /\ ActiveAt(tasks) = {}) =>
        /\ board.b.active_contract_coverage = 10000
        /\ board.b.ready_drift = 0
        /\ board.b.status = "healthy"

\* A board over finished and abandoned tasks only.
C19_Witness ==
    /\ board.done
    /\ Len(tasks) = 3
    /\ ActiveAt(tasks) = {}
    /\ board.b.status = "healthy"


(***************************************************************************)
(* cli.py: the compaction planner (_compact_plan)                          *)
(***************************************************************************)
\* sorted(set(ids)): the ids once each, in ascending string order.
RECURSIVE SortedIdSet(_)
SortedIdSet(ids) ==
    IF ids = {} THEN <<>>
    ELSE LET least == CHOOSE a \in ids : \A b \in ids \ {a} : IdLess(a, b)
         IN <<least>> \o SortedIdSet(ids \ {least})

SeqSet(seq) == {seq[i] : i \in 1..Len(seq)}

\* cli.py:1005-1010: the tasks that are grouped, in input order.
PlanGrouped(ts) == SelectSeq(ts, LAMBDA t : is_drift_task(t) /\ is_active(t))

\* A sort key of a group that does not look at the status.
KeepLessNoStatus(a, b) ==
    \/ task_epoch(a) < task_epoch(b)
    \/ (task_epoch(a) = task_epoch(b) /\ IdLess(a.id, b.id))

\* cli.py:1032-1036: the sort key (in-progress first, epoch, id) inside one group.
KeepLess(a, b) ==
    LET ra == IF a.status = "in-progress" THEN 0 ELSE 1
        rb == IF b.status = "in-progress" THEN 0 ELSE 1
    IN \/ ra < rb
       \/ /\ ra = rb
          /\ \/ task_epoch(a) < task_epoch(b)
             \/ (task_epoch(a) = task_epoch(b) /\ IdLess(a.id, b.id))

RECURSIVE InsertKeep(_, _)
InsertKeep(sorted, t) ==
    IF Len(sorted) = 0 THEN <<t>>
    ELSE IF KeepLess(t, Head(sorted)) THEN <<t>> \o sorted
    ELSE <<Head(sorted)>> \o InsertKeep(Tail(sorted), t)

RECURSIVE SortKeep(_, _)
SortKeep(rows, i) == IF i = 0 THEN <<>> ELSE InsertKeep(SortKeep(rows, i - 1), rows[i])

\* A group that names its last member as the one to keep.
PlanGroupKeepLast(gs, key) ==
    LET rows == SelectSeq(gs, LAMBDA t : normalize_drift_key(t) = key)
        ordered == SortKeep(rows, Len(rows))
        rest == Tail(ordered)
    IN [key |-> key, keep_task_id |-> ordered[Len(ordered)].id,
        abandon_task_ids |-> SelectSeq([i \in 1..Len(rest) |-> rest[i].id],
                                       LAMBDA id : Len(id) > 0)]

\* cli.py:1027-1047: one duplicate group of the plan.
PlanGroup(gs, key) ==
    LET rows == SelectSeq(gs, LAMBDA t : normalize_drift_key(t) = key)
        ordered == SortKeep(rows, Len(rows))
        rest == Tail(ordered)
    IN [key |-> key, keep_task_id |-> ordered[1].id,
        abandon_task_ids |-> SelectSeq([i \in 1..Len(rest) |-> rest[i].id],
                                       LAMBDA id : Len(id) > 0)]

\* cli.py:1026-1047: the groups with something to drop, in order of first insertion.
PlanGroups(ts) ==
    LET gs == PlanGrouped(ts)
        keys == GroupKeys(gs, <<>>)
        all == [i \in 1..Len(keys) |-> PlanGroup(gs, keys[i])]
    IN IF NoKeyTwice(gs) THEN <<>>
       ELSE SelectSeq(all, LAMBDA g : Len(g.abandon_task_ids) > 0)

RECURSIVE Flatten(_)
Flatten(groups) ==
    IF Len(groups) = 0 THEN <<>>
    ELSE Head(groups).abandon_task_ids \o Flatten(Tail(groups))

\* The depth rule without its exemption of claimed work.
DepthExceededAnyStatus(ts, depth_limit) ==
    LET hit == SelectSeq(ts, LAMBDA t :
                   /\ is_drift_task(t) /\ is_active(t)
                   /\ StartsWith(t.id, <<"redrift-">>)
                   /\ redrift_depth(t.id) > depth_limit)
    IN [i \in 1..Len(hit) |-> hit[i].id]

\* cli.py:1050-1061
DepthExceeded(ts, depth_limit) ==
    LET hit == SelectSeq(ts, LAMBDA t :
                   /\ is_drift_task(t) /\ is_active(t)
                   /\ StartsWith(t.id, <<"redrift-">>)
                   /\ redrift_depth(t.id) > depth_limit
                   /\ t.status # "in-progress")
    IN [i \in 1..Len(hit) |-> hit[i].id]

\* The overflow as it is before the ids picked for abandonment are taken out.
overflow_unfiltered(overflow_ids, abandon_ids) == overflow_ids

\* cli.py:1071-1073
overflow_kept(overflow_ids, abandon_ids) ==
    SelectSeq(overflow_ids, LAMBDA id : id \notin SeqSet(abandon_ids))

\* cli.py:1065-1069
Overflow(ts, safe_max_ready, clock) ==
    LET ready == rank_ready_drift_queue(ts, LOOP_QUEUE_LIMIT, clock)
        over == IF Len(ready) > safe_max_ready
                THEN SubSeq(ready, safe_max_ready + 1, Len(ready)) ELSE <<>>
    IN SelectSeq([i \in 1..Len(over) |-> over[i].task_id], LAMBDA id : Len(id) > 0)

\* cli.py:1004-1084
compact_plan(ts, max_ready, max_redrift_depth, clock) ==
    LET duplicate_groups == PlanGroups(ts)
        depth_limit == Max(0, max_redrift_depth)
        depth_exceeded_ids == DepthExceeded(ts, depth_limit)
        abandon_ids == Flatten(duplicate_groups) \o depth_exceeded_ids
        safe_max_ready == Max(0, max_ready)
    IN [duplicate_groups |-> duplicate_groups,
        depth_exceeded_redrift_task_ids |-> SortedIdSet(SeqSet(depth_exceeded_ids)),
        abandon_task_ids |-> SortedIdSet(SeqSet(abandon_ids)),
        ready_drift_before |-> ranked_len(ts, LOOP_QUEUE_LIMIT, clock),
        max_ready_drift |-> safe_max_ready,
        max_redrift_depth |-> depth_limit,
        defer_task_ids |-> overflow_kept(Overflow(ts, safe_max_ready, clock), abandon_ids)]


(***************************************************************************)
(* The compaction planner over a growing graph                             *)
(***************************************************************************)
MaxPlanTasks == 3

PlanTask(id, title, status, created_at, blocked_by) ==
    [id |-> id, title |-> title, status |-> status, tags |-> {}, blocked_by |-> blocked_by,
     created_at |-> created_at, not_before |-> NoTime, description |-> {}]

\* Follow-ups that repeat a base title (two of them created within one second),
\* redrift chains of depth 1 to 3, a claimed duplicate, a blocked follow-up, a
\* finished one, a task that is no follow-up, a later repeat of a redrift chain's
\* title and a second claimed repeat.
PlanPool ==
    <<PlanTask(<<"drift-", "t1">>, <<"App">>, "open", Time(1), <<>>),
      PlanTask(<<"drift-", "t2">>, <<"redrift build:", "app">>, "open", Time(2), <<>>),
      PlanTask(<<"drift-", "t3">>, <<"app">>, "in-progress", Time(3), <<>>),
      PlanTask(<<"redrift-", "app">>, <<"Widget">>, "open", Time(1), <<>>),
      PlanTask(<<"drift-", "fix-", "t1">>, <<"widget">>, "open", Time(1), <<>>),
      PlanTask(<<"redrift-", "redrift-", "app">>, <<"stage-a:">>, "open", Time(2), <<>>),
      PlanTask(<<"redrift-", "redrift-", "redrift-", "app">>, <<"stage-b:">>,
               "in-progress", Time(1), <<>>),
      PlanTask(<<"drift-", "harden-", "t1">>, <<"app">>, "open", NoTime, <<GhostId>>),
      PlanTask(<<"drift-", "scope-", "t1">>, <<"Stage-B:">>, "open", TimeMs(3, 900), <<>>),
      PlanTask(<<"drift-", "scope-", "t2">>, <<"stage-b:">>, "open", TimeMs(3, 100), <<>>),
      PlanTask(<<"drift-", "x">>, <<"app">>, "done", Time(1), <<>>),
      PlanTask(<<"t1">>, <<"app">>, "open", Time(1), <<>>),
      PlanTask(<<"drift-", "scope-", "t3">>, <<"stage-a:">>, "open", Time(3), <<GhostId>>),
      PlanTask(<<"drift-", "harden-", "t2">>, <<"App">>, "in-progress", Time(4),
               <<GhostId>>)>>

AddPlanTask(k) ==
    /\ ~plan.done
    /\ Len(tasks) < MaxPlanTasks
    /\ ~HasTask(tasks, PlanPool[k].id)
    /\ tasks' = Append(tasks, PlanPool[k])
    /\ UNCHANGED <<now, queueLimit, queueOut, checkedId, gatePolicy, verdict, policyVars,
                   checkVars, breakerVars, auditVars, sideVars>>

\* One call _compact_plan(tasks, max_ready=..., max_redrift_depth=...).
CompactPlan(max_ready, max_redrift_depth) ==
    /\ ~plan.done
    /\ plan' = [done |-> TRUE, max_ready |-> max_ready,
                max_redrift_depth |-> max_redrift_depth,
                p |-> compact_plan(tasks, max_ready, max_redrift_depth, now)]
    /\ UNCHANGED <<graphVars, policyVars, checkVars, breakerVars, cycleOut, dupOut, board, sideVars>>

InitCompact ==
    /\ PolicyIdle /\ CheckIdle /\ BreakerIdle /\ AuditIdle /\ SideIdle
    /\ tasks = <<>>
    /\ now = 0
    /\ queueLimit = 0 /\ queueOut = NoQueue
    /\ checkedId = NoId /\ gatePolicy = DefaultPolicy /\ verdict = NoVerdict

NextCompact ==
    \/ \E k \in 1..Len(PlanPool) : AddPlanTask(k)
    \/ \E max_ready \in -1..1, max_redrift_depth \in -1..2 :
           CompactPlan(max_ready, max_redrift_depth)

SpecCompact == InitCompact /\ [][NextCompact]_vars

\* C20: a compaction plan never lists one id both among the tasks to abandon and
\* among the tasks to defer.
C20_AbandonAndDeferDisjoint ==
    plan.done => SeqSet(plan.p.abandon_task_ids) \cap SeqSet(plan.p.defer_task_ids) = {}

\* A ready follow-up beyond the cap is picked for abandonment, so it is left out of
\* the deferred ids, while another follow-up beyond the cap is deferred.
C20_Witness ==
    /\ plan.done
    /\ \E id \in SeqSet(plan.p.abandon_task_ids) :
           id \in SeqSet(Overflow(tasks, Max(0, plan.max_ready), now))
    /\ Len(plan.p.defer_task_ids) > 0


\* The active follow-ups of the snapshot that share the key of task t.
SameKey(t) ==
    {i \in 1..Len(tasks) : /\ is_drift_task(tasks[i]) /\ is_active(tasks[i])
                           /\ normalize_drift_key(tasks[i]) = normalize_drift_key(t)}

\* Task a comes before task b: claimed work first, then the earlier creation time
\* (none or unreadable counts as the epoch), then the lower id.
KeepBefore(a, b) ==
    LET ra == IF a.status = "in-progress" THEN 0 ELSE 1
        rb == IF b.status = "in-progress" THEN 0 ELSE 1
    IN \/ ra < rb
       \/ /\ ra = rb
          /\ \/ Earlier(StampOf(a), StampOf(b))
             \/ (StampOf(a) = StampOf(b) /\ IdLess(a.id, b.id))

\* C21: in every group of two or more active follow-ups with one key, the plan keeps
\* the member that is first by (in-progress first, earliest creation time, lowest id)
\* and lists every other member in abandon_task_ids.
C21_KeepFirstAbandonRest ==
    plan.done =>
        \A i \in 1..Len(tasks) :
            (is_drift_task(tasks[i]) /\ is_active(tasks[i]) /\ Cardinality(SameKey(tasks[i])) > 1)
            => LET first == \A j \in SameKey(tasks[i]) \ {i} : KeepBefore(tasks[i], tasks[j])
               IN /\ \E g \in 1..Len(plan.p.duplicate_groups) :
                        /\ plan.p.duplicate_groups[g].key = normalize_drift_key(tasks[i])
                        /\ first => plan.p.duplicate_groups[g].keep_task_id = tasks[i].id
                  /\ ~first => tasks[i].id \in SeqSet(plan.p.abandon_task_ids)


\* The ids of the active follow-ups of the redrift family that are deeper than the
\* configured depth and are not claimed.
TooDeep ==
    {tasks[i].id : i \in {j \in 1..Len(tasks) :
        /\ is_drift_task(tasks[j]) /\ is_active(tasks[j])
        /\ StartsWith(tasks[j].id, <<"redrift-">>)
        /\ redrift_depth(tasks[j].id) > plan.max_redrift_depth
        /\ tasks[j].status # "in-progress"}}

\* C24: depth_exceeded_redrift_task_ids holds exactly the active, unclaimed redrift
\* follow-ups deeper than max_redrift_depth; all of them are in abandon_task_ids, and
\* every other id of abandon_task_ids is the dropped member of a duplicate group.
C24_DepthExceededAbandoned ==
    plan.done =>
        /\ SeqSet(plan.p.depth_exceeded_redrift_task_ids) = TooDeep
        /\ TooDeep \subseteq SeqSet(plan.p.abandon_task_ids)
        /\ SeqSet(plan.p.abandon_task_ids) \ TooDeep
               \subseteq SeqSet(Flatten(plan.p.duplicate_groups))

\* One redrift follow-up is abandoned for its depth while a claimed deeper one and
\* one exactly at the limit are left alone.
C24_Witness ==
    /\ plan.done
    /\ TooDeep # {}
    /\ \E i, j \in 1..Len(tasks) :
          /\ StartsWith(tasks[i].id, <<"redrift-">>)
          /\ tasks[i].status = "in-progress"
          /\ redrift_depth(tasks[i].id) > plan.max_redrift_depth
          /\ tasks[i].id \notin SeqSet(plan.p.abandon_task_ids)
          /\ StartsWith(tasks[j].id, <<"redrift-">>)
          /\ redrift_depth(tasks[j].id) = plan.max_redrift_depth
          /\ tasks[j].id \notin SeqSet(plan.p.abandon_task_ids)


(***************************************************************************)
(* cli.py: one compaction run (cmd_compact) against the task store         *)
(***************************************************************************)
\* cli.py:1787-1797: the arguments after clamping; --max-ready is <<>> when it was
\* not given and <<n>> when it was.
compact_max_ready(policy, max_ready_raw) ==
    Max(0, IF max_ready_raw = <<>> THEN policy.loop_max_ready_drift_followups
           ELSE max_ready_raw[1])
compact_max_depth(policy) == Max(0, policy.loop_max_redrift_depth)
compact_defer_hours(defer_hours) == Max(1, defer_hours)

\* A run that sends its requests whether or not --apply was given.
apply_always(apply) == TRUE

\* cli.py:1804: requests are sent only under --apply.
apply_requested(apply) == apply

\* The requests the plan asks for, in the order cmd_compact sends them.
PlannedRequests(p) ==
    [i \in 1..Len(p.abandon_task_ids) |-> [op |-> "abandon", id |-> p.abandon_task_ids[i]]]
    \o [i \in 1..Len(p.defer_task_ids) |-> [op |-> "reschedule", id |-> p.defer_task_ids[i]]]

\* A batch that gives up at the first failing request.
compact_request_abort(run, ok) ==
    LET req == PlannedRequests(run.plan)[run.i]
        sent == [run EXCEPT !.requests = Append(@, req), !.i = @ + 1]
    IN IF ~ok THEN [sent EXCEPT !.errors = Append(@, req),
                                !.i = Len(PlannedRequests(run.plan)) + 1]
       ELSE IF req.op = "abandon"
       THEN [sent EXCEPT !.applied_abandoned = Append(@, req.id)]
       ELSE [sent EXCEPT !.applied_deferred = Append(@, req.id)]

\* cli.py:1805-1820: one pass of either loop: the request is sent, its id goes to
\* the applied list when the store accepts it and to the errors otherwise.
compact_request(run, ok) ==
    LET req == PlannedRequests(run.plan)[run.i]
        sent == [run EXCEPT !.requests = Append(@, req), !.i = @ + 1]
    IN IF ~ok THEN [sent EXCEPT !.errors = Append(@, req)]
       ELSE IF req.op = "abandon"
       THEN [sent EXCEPT !.applied_abandoned = Append(@, req.id)]
       ELSE [sent EXCEPT !.applied_deferred = Append(@, req.id)]

\* The task store's contract: an accepted abandon closes the task, an accepted
\* reschedule moves its not_before the given number of hours ahead.
StoreApply(ts, req, hours, clock) ==
    [k \in 1..Len(ts) |->
        IF ts[k].id # req.id THEN ts[k]
        ELSE IF req.op = "abandon" THEN [ts[k] EXCEPT !.status = "abandoned"]
        ELSE [ts[k] EXCEPT !.not_before = Time(clock + hours)]]

\* cli.py:1826-1835
compact_report(run, after_tasks, clock) ==
    [applied |-> run.apply, defer_hours |-> run.defer_hours, plan |-> run.plan,
     applied_abandoned |-> run.applied_abandoned,
     applied_deferred |-> run.applied_deferred,
     errors |-> run.errors,
     scoreboard_before |-> compute_scoreboard(run.before, clock),
     scoreboard_after |-> compute_scoreboard(after_tasks, clock),
     exit |-> IF Len(run.errors) > 0 THEN ExitUsage ELSE ExitOk]

CompactPolicies ==
    {DefaultPolicy,
     [DefaultPolicy EXCEPT !.loop_max_redrift_depth = 1, !.loop_max_ready_drift_followups = 1]}

\* cli.py:1780-1802: the run loads policy and graph, clamps its arguments and plans.
CompactStart(policy, apply, max_ready_raw, defer_hours) ==
    /\ compactRun.pc = "idle"
    /\ compactRun' =
          [pc |-> "requests", apply |-> apply,
           defer_hours |-> compact_defer_hours(defer_hours),
           before |-> tasks,
           plan |-> compact_plan(tasks, compact_max_ready(policy, max_ready_raw),
                                 compact_max_depth(policy), now),
           i |-> 1, requests |-> <<>>, applied_abandoned |-> <<>>,
           applied_deferred |-> <<>>, errors |-> <<>>]
    /\ UNCHANGED <<graphVars, policyVars, checkVars, breakerVars, auditVars, wgFile, wgOut,
                   updateVars, throttleVars, autopilotVars>>

\* cli.py:1805-1820: the next wg abandon or wg reschedule call, which the store
\* accepts or refuses.
CompactRequest(ok) ==
    /\ compactRun.pc = "requests"
    /\ apply_requested(compactRun.apply)
    /\ compactRun.i <= Len(PlannedRequests(compactRun.plan))
    /\ compactRun' = compact_request(compactRun, ok)
    /\ tasks' = IF ok THEN StoreApply(tasks, PlannedRequests(compactRun.plan)[compactRun.i],
                                      compactRun.defer_hours, now)
                ELSE tasks
    /\ UNCHANGED <<now, queueLimit, queueOut, checkedId, gatePolicy, verdict, policyVars,
                   checkVars, breakerVars, auditVars, wgFile, wgOut, updateVars,
                   throttleVars, autopilotVars>>

\* cli.py:1822-1860: the graph is loaded again and the report is printed.
CompactReport ==
    /\ compactRun.pc = "requests"
    /\ \/ ~apply_requested(compactRun.apply)
       \/ compactRun.i > Len(PlannedRequests(compactRun.plan))
    /\ compactRun' = [compactRun EXCEPT !.pc = "done"]
                         @@ [report |-> compact_report(compactRun, tasks, now)]
    /\ UNCHANGED <<graphVars, policyVars, checkVars, breakerVars, auditVars, wgFile, wgOut,
                   updateVars, throttleVars, autopilotVars>>

\* The store of the compaction runs: the unblocked active follow-ups of the
\* planner's pool that were created on a whole second.
ApplyPool ==
    SelectSeq(PlanPool, LAMBDA t : /\ is_drift_task(t) /\ is_active(t)
                                   /\ t.blocked_by = <<>> /\ t.created_at.ms = 0)

AddStoreTask(k) ==
    /\ compactRun.pc = "idle"
    /\ Len(tasks) < MaxPlanTasks
    /\ ~HasTask(tasks, ApplyPool[k].id)
    /\ tasks' = Append(tasks, ApplyPool[k])
    /\ UNCHANGED <<now, queueLimit, queueOut, checkedId, gatePolicy, verdict, policyVars,
                   checkVars, breakerVars, auditVars, sideVars>>

InitApply ==
    /\ PolicyIdle /\ CheckIdle /\ BreakerIdle /\ AuditIdle /\ SideIdle
    /\ tasks = <<>>
    /\ now = 0
    /\ queueLimit = 0 /\ queueOut = NoQueue
    /\ checkedId = NoId /\ gatePolicy = DefaultPolicy /\ verdict = NoVerdict

NextApply ==
    \/ \E k \in 1..Len(ApplyPool) : AddStoreTask(k)
    \/ \E policy \in CompactPolicies, apply \in BOOLEAN, max_ready_raw \in {<<>>, <<0>>},
          defer_hours \in {0, 2} : CompactStart(policy, apply, max_ready_raw, defer_hours)
    \/ \E ok \in BOOLEAN : CompactRequest(ok)
    \/ CompactReport

SpecApply == InitApply /\ [][NextApply]_vars

RunStarted == compactRun.pc # "idle"
RunDone == compactRun.pc = "done"

\* C22: an applied plan sends one request per planned id, the abandon requests
\* first and the reschedule requests after them, whatever the store answers; each
\* planned id is in exactly one of the applied and the error lists; the report
\* carries the plan, the applied ids and the errors.
C22_BatchSurvivesFailures ==
    /\ RunStarted =>
          /\ compactRun.requests = SubSeq(PlannedRequests(compactRun.plan), 1, compactRun.i - 1)
          /\ \A r \in SeqSet(compactRun.requests) :
                (r \in SeqSet(compactRun.errors))
                    # (r.id \in SeqSet(compactRun.applied_abandoned \o compactRun.applied_deferred))
          /\ Len(compactRun.errors) + Len(compactRun.applied_abandoned)
                 + Len(compactRun.applied_deferred) = Len(compactRun.requests)
    /\ RunDone =>
          /\ compactRun.apply => compactRun.requests = PlannedRequests(compactRun.plan)
          /\ compactRun.report.plan = compactRun.plan
          /\ compactRun.report.applied_abandoned = compactRun.applied_abandoned
          /\ compactRun.report.applied_deferred = compactRun.applied_deferred
          /\ compactRun.report.errors = compactRun.errors

\* A run whose first request failed went on to send the rest and reported both
\* an error and an applied id.
C22_Witness ==
    /\ RunDone
    /\ Len(compactRun.requests) >= 3
    /\ compactRun.errors # <<>>
    /\ compactRun.errors[1] = compactRun.requests[1]
    /\ compactRun.applied_abandoned # <<>>
    /\ compactRun.applied_deferred # <<>>

\* C23: planning changes nothing and a dry run sends nothing: until the first
\* request is sent the store is what the run loaded, and a run without --apply
\* sends no request at all.
C23_DryRunLeavesStore ==
    RunStarted =>
        /\ compactRun.requests = <<>> => tasks = compactRun.before
        /\ ~compactRun.apply => compactRun.requests = <<>>

\* A dry run reported a plan with ids to abandon and to defer and left the store
\* as it was.
C23_Witness ==
    /\ RunDone
    /\ ~compactRun.apply
    /\ compactRun.plan.abandon_task_ids # <<>>
    /\ compactRun.plan.defer_task_ids # <<>>
    /\ tasks = compactRun.before


(***************************************************************************)
(* workgraph.py: load_workgraph, and cmd_queue as the invocation around it *)
(***************************************************************************)
\* A line of graph.jsonl: a task object, a blank line, text that is no JSON (a task
\* line cut short), an object of another type, a task object without id, or JSON
\* that is no object.
Line(kind, task) == [kind |-> kind, task |-> task]

\* workgraph.py:62: tasks[tid] = obj: a repeated id keeps its place and takes the
\* later object.
DictPut(ts, t) ==
    IF HasTask(ts, t.id)
    THEN [k \in 1..Len(ts) |-> IF ts[k].id = t.id THEN t ELSE ts[k]]
    ELSE Append(ts, t)

RECURSIVE DictOf(_, _)
DictOf(lines, acc) ==
    IF Len(lines) = 0 THEN acc
    ELSE DictOf(Tail(lines), IF Head(lines).kind = "task" THEN DictPut(acc, Head(lines).task)
                             ELSE acc)

\* workgraph.py:44-64.  read_text raises on a file that cannot be read or decoded
\* (line 48) and obj.get raises on JSON that is no object (line 56); a line that is
\* no JSON is passed over (lines 52-55).
load_workgraph(file) ==
    IF ~file.readable THEN [raised |-> TRUE]
    ELSE IF \E k \in 1..Len(file.lines) : file.lines[k].kind = "scalar"
    THEN [raised |-> TRUE]
    ELSE [raised |-> FALSE, tasks |-> DictOf(file.lines, <<>>)]

MaxLines == 3

FileTask(id, title, status) == PlanTask(id, title, status, Time(1), <<>>)

LinePool ==
    <<Line("task", FileTask(<<"drift-", "t1">>, <<"app">>, "open")),
      Line("task", FileTask(<<"drift-", "t2">>, <<"App">>, "open")),
      Line("task", FileTask(<<"drift-", "t1">>, <<"app">>, "done")),
      Line("garbled", FileTask(<<"drift-", "t3">>, <<"widget">>, "open")),
      Line("blank", FileTask(NoId, <<>>, "open")),
      Line("edge", FileTask(NoId, <<>>, "open")),
      Line("noid", FileTask(NoId, <<"widget">>, "open")),
      Line("scalar", FileTask(NoId, <<>>, "open"))>>

\* The task store appends one more line to graph.jsonl.
WriteLine(k) ==
    /\ ~wgOut.done
    /\ wgFile.readable
    /\ Len(wgFile.lines) < MaxLines
    /\ wgFile' = [wgFile EXCEPT !.lines = Append(@, LinePool[k])]
    /\ UNCHANGED <<graphVars, policyVars, checkVars, breakerVars, auditVars, wgOut, compactRun,
                   updateVars, throttleVars, autopilotVars>>

\* The file is lost or overwritten with bytes that do not decode.
SpoilFile ==
    /\ ~wgOut.done
    /\ wgFile.readable
    /\ wgFile' = [wgFile EXCEPT !.readable = FALSE]
    /\ UNCHANGED <<graphVars, policyVars, checkVars, breakerVars, auditVars, wgOut, compactRun,
                   updateVars, throttleVars, autopilotVars>>

\* cli.py:1749-1778: one cmd_queue invocation: it ends with the exception the load
\* raised, or prints the ranked queue, the duplicate groups and the scoreboard.
Queue(limit) ==
    /\ ~wgOut.done
    /\ LET wg == load_workgraph(wgFile)
       IN wgOut' =
            IF wg.raised THEN [done |-> TRUE, raised |-> TRUE]
            ELSE [done |-> TRUE, raised |-> FALSE, tasks |-> wg.tasks,
                  ready_drift |-> rank_ready_drift_queue(wg.tasks, Max(1, limit), now),
                  duplicate_open_drift_groups |-> find_duplicate_open_drift_groups(wg.tasks),
                  scoreboard |-> compute_scoreboard(wg.tasks, now)]
    /\ UNCHANGED <<graphVars, policyVars, checkVars, breakerVars, auditVars, wgFile, compactRun,
                   updateVars, throttleVars, autopilotVars>>

InitLoad ==
    /\ PolicyIdle /\ CheckIdle /\ BreakerIdle /\ AuditIdle /\ SideIdle
    /\ tasks = <<>>
    /\ now = 0
    /\ queueLimit = 0 /\ queueOut = NoQueue
    /\ checkedId = NoId /\ gatePolicy = DefaultPolicy /\ verdict = NoVerdict

NextLoad ==
    \/ \E k \in 1..Len(LinePool) : WriteLine(k)
    \/ SpoilFile
    \/ \E limit \in {0, DEFAULT_LIMIT} : Queue(limit)

SpecLoad == InitLoad /\ [][NextLoad]_vars

\* The ids of the task lines of the file, the unparsable ones included.
WrittenIds ==
    {wgFile.lines[k].task.id : k \in {j \in 1..Len(wgFile.lines) :
                                        wgFile.lines[j].kind \in {"task", "garbled"}}}

\* C25: an invocation over a graph file that cannot be read, or that holds a task
\* line that cannot be parsed, ends with an error and computes nothing; a snapshot
\* that was returned holds every task the file has a line for.
C25_LoadAllOrNothing ==
    wgOut.done =>
        /\ (\/ ~wgFile.readable
            \/ \E k \in 1..Len(wgFile.lines) : wgFile.lines[k].kind = "garbled")
           => wgOut.raised
        /\ ~wgOut.raised => \A id \in WrittenIds : HasTask(wgOut.tasks, id)


(***************************************************************************)
(* policy.py: the order list of the policy file                            *)
(***************************************************************************)
MaxOrderLen == 3

\* Lane names an order list may hold: known lanes, a padded name, a blank entry and
\* a name that is no lane.
OrderNames == {"coredrift", " coredrift ", "specdrift", "yagnidrift", "", "mydrift"}

\* The policy file gains one more entry at the end of its order array.
AppendLane(name) ==
    /\ ~polResult.done
    /\ polFile.state = "parsed"
    /\ Len(polFile.data.order.items) < MaxOrderLen
    /\ polFile' = [polFile EXCEPT !.data.order = [list |-> TRUE, items |-> Append(@.items, name)]]
    /\ UNCHANGED <<polResult, graphVars, checkVars, breakerVars, auditVars, sideVars>>

InitOrder ==
    /\ polFile = [state |-> "parsed", data |-> EmptyData]
    /\ polResult = NoPolicy
    /\ GraphIdle /\ CheckIdle /\ BreakerIdle /\ AuditIdle /\ SideIdle

NextOrder == (\E name \in OrderNames : AppendLane(name)) \/ LoadPolicy

SpecOrder == InitOrder /\ [][NextOrder]_vars

\* C26: whatever order array the policy file configures, the loaded order starts
\* with coredrift.
C26_CoredriftFirst ==
    (polResult.done /\ polFile.data.order.list) => polResult.p.order[1] = "coredrift"


(***************************************************************************)
(* updates.py: check_ecosystem_updates over the persisted update state     *)
(***************************************************************************)
\* The repositories a check is asked about (its repos argument).
Tools == {"coredrift", "specdrift"}
Shas == {"a1", "b2"}

\* updates.py:70-77 _default_state: no check recorded, no sha stored ("" is a
\* repository the state has no sha for).
default_state == [last_checked_at |-> <<>>, repos |-> [t \in Tools |-> ""]]

\* A skip rule that never applies.
interval_skip_never(force, last_checked, interval, clock) == FALSE

\* updates.py:394-396: the check is skipped when it is not forced, a last check is
\* recorded, the interval is positive and less than the interval has passed.
interval_skip(force, last_checked, interval, clock) ==
    /\ ~force
    /\ last_checked # <<>>
    /\ interval > 0
    /\ clock - last_checked[1] < interval

\* A change rule that also reports the first sha seen.
sha_changed_any(prev_sha, current_sha) == current_sha # prev_sha

\* updates.py:443
sha_changed(prev_sha, current_sha) == prev_sha # "" /\ current_sha # prev_sha

\* updates.py:374-411, 427-463 and 594-598.  remote[t] is the sha the fetcher
\* returns for t; the fetcher raises for the repositories in failing.
check_ecosystem_updates(state, interval_seconds, force, remote, failing, clock) ==
    LET interval == Max(0, interval_seconds)
        fetched == [t \in Tools |-> IF t \in failing THEN "" ELSE remote[t]]
    IN IF interval_skip(force, state.last_checked_at, interval, clock)
       THEN [skipped |-> TRUE, updates |-> {}, lookups |-> {},
             fetched |-> [t \in Tools |-> ""], state |-> state]
       ELSE [skipped |-> FALSE,
             updates |-> {t \in Tools \ failing : sha_changed(state.repos[t], fetched[t])},
             lookups |-> Tools,
             fetched |-> fetched,
             state |-> [last_checked_at |-> <<clock>>,
                        repos |-> [t \in Tools |-> IF t \in failing THEN state.repos[t]
                                                   ELSE fetched[t]]]]

\* A commit lands on a repository's main branch.
Push(t, sha) ==
    /\ upstream[t] # sha
    /\ upstream' = [upstream EXCEPT ![t] = sha]
    /\ UNCHANGED <<graphVars, policyVars, checkVars, breakerVars, auditVars, storeVars,
                   updState, updOut, throttleVars, autopilotVars>>

\* Time passes between checks.
Wait ==
    /\ now < MaxClock
    /\ now' = now + 1
    /\ UNCHANGED <<tasks, queueLimit, queueOut, checkedId, gatePolicy, verdict, policyVars,
                   checkVars, breakerVars, auditVars, sideVars>>

\* One call of check_ecosystem_updates: the state file is read, and written back
\* unless the check is skipped.
CheckUpdates(interval_seconds, force, failing) ==
    /\ LET r == check_ecosystem_updates(updState, interval_seconds, force, upstream,
                                        failing, now)
       IN /\ updState' = r.state
          /\ updOut' = [done |-> TRUE, at |-> now, interval_seconds |-> interval_seconds,
                        force |-> force, before |-> updState, skipped |-> r.skipped,
                        updates |-> r.updates, lookups |-> r.lookups,
                        fetched |-> r.fetched]
    /\ UNCHANGED <<graphVars, policyVars, checkVars, breakerVars, auditVars, storeVars,
                   upstream, throttleVars, autopilotVars>>

InitUpdates ==
    /\ PolicyIdle /\ GraphIdle /\ CheckIdle /\ BreakerIdle /\ AuditIdle
    /\ StoreIdle /\ ThrottleIdle /\ AutopilotIdle
    /\ updState = default_state
    /\ upstream = [t \in Tools |-> "a1"]
    /\ updOut = NoAudit

NextUpdates ==
    \/ \E t \in Tools, sha \in Shas : Push(t, sha)
    \/ Wait
    \/ \E interval_seconds \in {-1, 0, MaxClock}, force \in BOOLEAN, failing \in SUBSET Tools :
           CheckUpdates(interval_seconds, force, failing)

SpecUpdates == InitUpdates /\ [][NextUpdates]_vars

\* What the last check did for repository t, when it was not skipped and its
\* fetch succeeded.
Fetched(t) == updOut.done /\ ~updOut.skipped /\ updOut.fetched[t] # ""

\* C27: a check that fetches a repository's sha for the first time stores it and
\* reports no update; every later one reports an update exactly when the fetched
\* sha differs from the stored one, and stores the fetched sha; the next check that
\* fetches the same sha again does not report it a second time.
C27_ChangeReportedOnce ==
    /\ [](\A t \in Tools :
            Fetched(t) =>
               /\ updState.repos[t] = updOut.fetched[t]
               /\ updOut.before.repos[t] = "" => t \notin updOut.updates
               /\ updOut.before.repos[t] # "" =>
                     (t \in updOut.updates <=> updOut.fetched[t] # updOut.before.repos[t]))
    /\ [][\A t \in Tools :
            (Fetched(t) /\ updOut' # updOut /\ ~updOut'.skipped
               /\ updOut'.fetched[t] = updOut.fetched[t])
            => t \notin updOut'.updates]_vars

\* A check stored a baseline without a report, and a later check reported the
\* pushed sha and stored it.
C27_Witness ==
    /\ Fetched("coredrift")
    /\ "coredrift" \in updOut.updates
    /\ updOut.before.repos["coredrift"] = "a1"
    /\ updState.repos["coredrift"] = "b2"
    /\ "specdrift" \notin updOut.updates

\* C28: an unforced check less than interval_seconds (> 0) after the last recorded
\* check is skipped: no remote lookup, no update reported, and the persisted state
\* is what it was.
C28_SkipLeavesState ==
    (/\ updOut.done
     /\ ~updOut.force
     /\ updOut.interval_seconds > 0
     /\ updOut.before.last_checked_at # <<>>
     /\ updOut.at - updOut.before.last_checked_at[1] < updOut.interval_seconds)
    => /\ updOut.skipped
       /\ updOut.lookups = {}
       /\ updOut.updates = {}
       /\ updState = updOut.before

\* A check was skipped although the remote had moved on from the stored sha.
C28_Witness ==
    /\ updOut.done /\ updOut.skipped
    /\ updOut.at > updOut.before.last_checked_at[1]
    /\ \E t \in Tools : updState.repos[t] # "" /\ upstream[t] # updState.repos[t]


(***************************************************************************)
(* continuation.py: the continuation throttle                              *)
(***************************************************************************)
MaxRecords == 3
WINDOW_SECONDS == 300
MAX_CONTINUATIONS == 3

\* continuation.py:21-30.  recorded is the content of .continuation-state, one
\* timestamp per line; a missing file reads as no line and gives False (line 24).
check_throttle(recorded, window_seconds, max_continuations, clock) ==
    IF recorded = <<>> THEN FALSE
    ELSE LET cutoff == clock - window_seconds
             recent == SelectSeq(recorded, LAMBDA ts : ts >= cutoff)
         IN Len(recent) >= max_continuations

\* continuation.py:33-37 record_continuation
RecordContinuation ==
    /\ Len(contState) < MaxRecords
    /\ contState' = Append(contState, now)
    /\ UNCHANGED <<graphVars, policyVars, checkVars, breakerVars, auditVars, storeVars,
                   updateVars, throttleOut, autopilotVars>>

\* One call check_throttle(state_dir, window_seconds, max_continuations).
CheckThrottle(window_seconds, max_continuations) ==
    /\ throttleOut' = [done |-> TRUE, at |-> now, recorded |-> contState,
                       window_seconds |-> window_seconds,
                       max_continuations |-> max_continuations,
                       throttled |-> check_throttle(contState, window_seconds,
                                                    max_continuations, now)]
    /\ UNCHANGED <<graphVars, policyVars, checkVars, breakerVars, auditVars, storeVars,
                   updateVars, contState, autopilotVars>>

InitThrottle ==
    /\ PolicyIdle /\ GraphIdle /\ CheckIdle /\ BreakerIdle /\ AuditIdle /\ SideIdle

NextThrottle ==
    \/ RecordContinuation
    \/ Wait
    \/ \E window_seconds \in {1, WINDOW_SECONDS},
          max_continuations \in {1, MAX_CONTINUATIONS} :
           CheckThrottle(window_seconds, max_continuations)

SpecThrottle == InitThrottle /\ [][NextThrottle]_vars

\* The continuations recorded within the window of the last check.
InWindow ==
    {i \in 1..Len(throttleOut.recorded) :
        throttleOut.recorded[i] >= throttleOut.at - throttleOut.window_seconds}

\* C29: check_throttle answers true exactly when more than max_continuations
\* continuations were recorded within the last window_seconds; with exactly
\* max_continuations of them it answers false.
C29_ThrottleWhenExceeded ==
    throttleOut.done =>
        (throttleOut.throttled <=> Cardinality(InWindow) > throttleOut.max_continuations)


\* The lanes a finished check must have run after coredrift: the ordered optional
\* lanes that are installed and selected.
LanesDue ==
    SelectSeq(ck.ordered_plugins, LAMBDA p : p \in ck.installed /\ p \in ck.selected)

\* C30: once coredrift has exited with 0 or 3, the check runs every optional lane
\* that is due, whatever the lanes before it exited with, and ends with 3 exactly
\* when coredrift or an optional lane exited with 3, and with 0 otherwise.
C30_OptionalLanesBestEffort ==
    (ck.pc = "done" /\ "speed_rc" \in DOMAIN ck /\ ck.speed_rc \in {ExitOk, ExitFindings})
    => /\ [k \in 1..Len(laneRuns) |-> laneRuns[k].lane] = <<"coredrift">> \o LanesDue
       /\ ck.exit = IF ck.speed_rc = ExitFindings \/ ExitFindings \in ck.lane_rcs
                    THEN ExitFindings ELSE ExitOk

\* Optional lanes failed and none found anything, every due lane ran, and the
\* check ended with 0.
C30_Witness ==
    /\ ck.pc = "done" /\ "speed_rc" \in DOMAIN ck
    /\ ck.speed_rc = ExitOk
    /\ ck.lane_rcs = {ExitOk, 1}
    /\ Len(laneRuns) > 2
    /\ ck.exit = ExitOk


(***************************************************************************)
(* cmd_check and the task store under a blocking verdict                   *)
(***************************************************************************)
\* C31: a check invocation whose loop-safety verdict has followups_blocked creates
\* no task in the store: no step of it, from the update preflight to the breaker
\* escalation at its end, changes the task list.
C31_BlockedCheckCreatesNoTask ==
    [][("loop_safety" \in DOMAIN ck' /\ ck'.loop_safety.followups_blocked)
          => tasks' = tasks]_vars


(***************************************************************************)
(* The survivor of a duplicate group                                       *)
(***************************************************************************)
\* C33 as claimed: the task kept for a duplicate group is never among the ids the
\* plan abandons.
C33_KeeperNeverAbandoned ==
    plan.done =>
        \A g \in SeqSet(plan.p.duplicate_groups) :
            g.keep_task_id \notin SeqSet(plan.p.abandon_task_ids)


\* The task of the snapshot with the given id.
PlanTaskOf(id) == TaskOf(tasks, id)

\* C33 (amended): the task kept for a duplicate group is not among the ids its
\* group drops, and the plan abandons it exactly when the depth rule picks it: it
\* is an unclaimed redrift follow-up deeper than max_redrift_depth.
C33_KeeperAbandonedOnlyForDepth ==
    plan.done =>
        \A g \in SeqSet(plan.p.duplicate_groups) :
            /\ g.keep_task_id \notin SeqSet(g.abandon_task_ids)
            /\ g.keep_task_id \in SeqSet(plan.p.abandon_task_ids)
                  <=> g.keep_task_id \in TooDeep

\* A redrift follow-up at the depth limit is kept and survives while its later
\* repeat is abandoned.
C33_Witness ==
    /\ plan.done
    /\ \E g \in SeqSet(plan.p.duplicate_groups) :
          /\ StartsWith(g.keep_task_id, <<"redrift-">>)
          /\ redrift_depth(g.keep_task_id) = plan.p.max_redrift_depth
          /\ g.keep_task_id \notin SeqSet(plan.p.abandon_task_ids)
          /\ SeqSet(g.abandon_task_ids) \subseteq SeqSet(plan.p.abandon_task_ids)
          /\ g.abandon_task_ids # <<>>

(***************************************************************************)
(* Claimed work in a plan                                                  *)
(***************************************************************************)
\* C34 as claimed: no task whose status is in-progress is among the ids a plan
\* abandons.
C34_NoClaimedTaskAbandoned ==
    plan.done =>
        \A id \in SeqSet(plan.p.abandon_task_ids) : PlanTaskOf(id).status # "in-progress"

\* C34 (amended): a task whose status is in-progress is abandoned only as the
\* dropped member of a duplicate group whose kept task is in-progress too; the
\* depth rule never picks it, and a group with a single in-progress member keeps
\* that member.
C34_ClaimedTaskAbandonedOnlyForClaimedKeeper ==
    plan.done =>
        /\ \A id \in SeqSet(plan.p.abandon_task_ids) :
              PlanTaskOf(id).status = "in-progress" =>
                  /\ id \notin SeqSet(plan.p.depth_exceeded_redrift_task_ids)
                  /\ \E g \in SeqSet(plan.p.duplicate_groups) :
                        /\ id \in SeqSet(g.abandon_task_ids)
                        /\ PlanTaskOf(g.keep_task_id).status = "in-progress"
        /\ \A g \in SeqSet(plan.p.duplicate_groups) :
              (\E id \in SeqSet(g.abandon_task_ids) \cup {g.keep_task_id} :
                    PlanTaskOf(id).status = "in-progress")
                  => PlanTaskOf(g.keep_task_id).status = "in-progress"

\* Of two claimed repeats of one title the earlier is kept and the later is
\* abandoned, together with an open repeat.
C34_Witness ==
    /\ plan.done
    /\ \E g \in SeqSet(plan.p.duplicate_groups) :
          /\ PlanTaskOf(g.keep_task_id).status = "in-progress"
          /\ \E id \in SeqSet(g.abandon_task_ids) :
                /\ PlanTaskOf(id).status = "in-progress"
                /\ id \in SeqSet(plan.p.abandon_task_ids)
          /\ \E id \in SeqSet(g.abandon_task_ids) : PlanTaskOf(id).status = "open"


(***************************************************************************)
(* SpecBacklog: compaction runs against a backlog of more ready follow-ups *)
(* than the planner's ranking call returns                                 *)
(***************************************************************************)
\* n ready follow-ups, each with a title and a creation time of its own.
BacklogGraph(n) ==
    [i \in 1..n |->
        [id |-> <<"drift-", "fix-", ToString(i)>>, title |-> <<"fix", ToString(i)>>,
         status |-> "open", tags |-> {"drift"}, blocked_by |-> <<>>,
         created_at |-> Time(i), not_before |-> NoTime, description |-> {}]]

\* cli.py:1781-1802: a second run with the limits of the first, without --apply:
\* the plan it reports.
CompactAgain ==
    /\ compactRun.pc = "done"
    /\ "again" \notin DOMAIN compactRun
    /\ compactRun' = compactRun
                       @@ [again |-> compact_plan(tasks, compactRun.plan.max_ready_drift,
                                                  compactRun.plan.max_redrift_depth, now)]
    /\ UNCHANGED <<graphVars, policyVars, checkVars, breakerVars, auditVars, wgFile, wgOut,
                   updateVars, throttleVars, autopilotVars>>

InitBacklog ==
    /\ PolicyIdle /\ CheckIdle /\ BreakerIdle /\ AuditIdle /\ SideIdle
    /\ tasks = BacklogGraph(LOOP_QUEUE_LIMIT + 1)
    /\ now = 0
    /\ queueLimit = 0 /\ queueOut = NoQueue
    /\ checkedId = NoId /\ gatePolicy = DefaultPolicy /\ verdict = NoVerdict

NextBacklog ==
    \/ \E policy \in CompactPolicies, apply \in BOOLEAN,
          max_ready_raw \in {<<LOOP_QUEUE_LIMIT - 1>>, <<LOOP_QUEUE_LIMIT - 2>>},
          defer_hours \in {0, 2} : CompactStart(policy, apply, max_ready_raw, defer_hours)
    \/ \E ok \in BOOLEAN : CompactRequest(ok)
    \/ CompactReport
    \/ CompactAgain

SpecBacklog == InitBacklog /\ [][NextBacklog]_vars

\* The run sent every planned request and the store accepted each of them.
AppliedInFull ==
    /\ RunDone /\ compactRun.apply
    /\ compactRun.errors = <<>>

\* C32: after a plan was applied with every request accepted and nothing else
\* changed in the graph, the ready drift queue holds at most max_ready tasks.
C32_ReadyWithinMaxAfterApply ==
    AppliedInFull =>
        Len(ReadyTasks(tasks, now)) <= compactRun.plan.max_ready_drift

\* C35: planning again with the same limits on the graph a fully applied plan
\* left, before a deferral expires, gives a plan that abandons nothing and defers
\* nothing.
C35_SecondPlanEmpty ==
    (AppliedInFull /\ "again" \in DOMAIN compactRun) =>
        /\ compactRun.again.abandon_task_ids = <<>>
        /\ compactRun.again.defer_task_ids = <<>>


(***************************************************************************)
(* SpecEscalate: breaker tasks in the ready queue                          *)
(***************************************************************************)
\* The origin t1 of an escalation, a pit-stop task and a fix follow-up, the last
\* two ready and created no later than any breaker task.
EscalateGraph ==
    <<PlanTask(<<"t1">>, <<"app">>, "open", Time(1), <<>>),
      PlanTask(<<"coredrift-", "pit-", "t1">>, <<"app">>, "open", NoTime, <<>>),
      PlanTask(<<"drift-", "fix-", "t1">>, <<"widget">>, "open", NoTime, <<>>)>>

\* The task store's contract: a task is claimed or finished by whoever works on it.
StoreSetStatus(k, status) ==
    /\ ~queueOut.done
    /\ k \in 1..Len(tasks)
    /\ tasks[k].status # status
    /\ tasks' = [tasks EXCEPT ![k].status = status]
    /\ UNCHANGED <<now, queueLimit, queueOut, checkedId, gatePolicy, verdict, policyVars,
                   checkVars, breakerVars, auditVars, sideVars>>

InitEscalate ==
    /\ PolicyIdle /\ CheckIdle /\ BreakerIdle /\ AuditIdle /\ SideIdle
    /\ tasks = EscalateGraph
    /\ now = 0
    /\ queueLimit = 0 /\ queueOut = NoQueue
    /\ checkedId = NoId /\ gatePolicy = DefaultPolicy /\ verdict = NoVerdict

\* Escalations, work on the tasks and the passing of time, up to the ranking call.
NextEscalate ==
    \/ ~queueOut.done /\ \E task_id \in BreakerOrigins : BreakerCallInTurn(task_id)
    \/ ~queueOut.done /\ \E c \in Callers : BreakerShow(c)
    \/ ~queueOut.done /\ \E c \in Callers : BreakerAdd(c)
    \/ ~queueOut.done /\ Tick
    \/ \E k \in 1..Len(tasks), status \in {"in-progress", "done"} : StoreSetStatus(k, status)
    \/ \E limit \in {0, MaxLimit} : RankQueue(limit)

SpecEscalate == InitEscalate /\ [][NextEscalate]_vars

\* The tasks of the store that _ensure_breaker_task created.
CreatedBreakers ==
    {k \in 1..Len(tasks) : tasks[k].id \in SeqSet(createReqs) /\ "breaker" \in tasks[k].tags}

OriginDone(b) ==
    HasTask(tasks, b.blocked_by[1]) /\ TaskOf(tasks, b.blocked_by[1]).status = "done"

IsBreakerId(id) == StartsWith(id, <<"drift-", "breaker-">>)

\* C36: a breaker task created by _ensure_breaker_task is a drift task; it is not
\* ready while its origin task is not done; once the origin is done the open
\* breaker task is ready, and the ranked queue lists it before every task that is
\* not a breaker task.
C36_BreakerRanksFirstOnceOriginDone ==
    \A k \in CreatedBreakers :
        LET b == tasks[k]
        IN /\ is_drift_task(b)
           /\ ~OriginDone(b) => ~ReadyFilter(b, tasks, now)
           /\ (OriginDone(b) /\ is_active(b)) =>
                 /\ ReadyFilter(b, tasks, now)
                 /\ queueOut.done =>
                       \A j \in 1..Len(queueOut.out) :
                           ~IsBreakerId(queueOut.out[j].task_id) =>
                               \E i \in 1..(j - 1) : queueOut.out[i].task_id = b.id

\* The breaker task of t1, created after the pit-stop task and the fix follow-up,
\* heads the queue once t1 is done, and the pit-stop task follows it.
C36_Witness ==
    /\ queueOut.done
    /\ Len(queueOut.out) >= 2
    /\ queueOut.out[1].task_id = BreakerId(<<"t1">>)
    /\ queueOut.out[2].task_id = <<"coredrift-", "pit-", "t1">>
    /\ queueOut.out[1].created_at = Time(MaxClock)
    /\ TaskOf(tasks, <<"t1">>).status = "done"


(***************************************************************************)
(* project_autopilot.py: run_autopilot_loop                                *)
(* One run of the loop over the ready lists `wg ready` answers with.  The  *)
(* worker and the drift check are subprocesses that return; what they      *)
(* return is an input of the step that waits for them.                     *)
(***************************************************************************)
MaxAutopilotTasks == 2
MaxLoops == MaxAutopilotTasks + 2
DRIFT_FAILURE_THRESHOLD == 3

AutopilotIds == {"t" \o ToString(i) : i \in 1..MaxAutopilotTasks}

\* What get_ready_tasks can return (project_autopilot.py:187-208): the ready tasks
\* of the store in the order `wg ready` prints them, each id once; the empty list
\* when `wg ready` fails.
ReadyLists ==
    {l \in UNION {[1..k -> AutopilotIds] : k \in 0..MaxAutopilotTasks} :
        \A i, j \in 1..Len(l) : l[i] = l[j] => i = j}

\* project_autopilot.py:347-349
should_escalate(worker, threshold) == worker.drift_fail_count >= threshold

\* project_autopilot.py:352-415.  ok is whether the worker came up and returned 0.
\* Without a session driver the context is stored in run.workers whatever the
\* status; with one, a failed launch returns before it is stored and a launched
\* worker always counts as completed.
dispatch_task(task_id, session_driver, ok) ==
    LET ctx == [task_id |-> task_id, drift_fail_count |-> 0,
                status |-> IF ok THEN "completed" ELSE "failed"]
    IN [ctx |-> ctx, stored |-> ok \/ ~session_driver]

\* The filter that drops tasks a set of r already holds: with every set this is
\* project_autopilot.py:429-435.
NotIn(ready, sets) == SelectSeq(ready, LAMBDA id : \A s \in sets : id \notin s)

\* A filter that forgets the failed tasks.
actionable_forgetting_failed(ready, r) ==
    NotIn(ready, {r.completed_tasks, r.escalated_tasks})

\* project_autopilot.py:429-435
actionable(ready, r) ==
    NotIn(ready, {r.completed_tasks, r.failed_tasks, r.escalated_tasks})

\* AutopilotRun(config=config) handed to run_autopilot_loop (cli.py:2367-2369,
\* project_autopilot.py:418-422).  dispatches and scores record the calls of
\* dispatch_task and the answers of run_drift_check per task.
AutopilotStart(max_parallel, drift_failure_threshold, dry_run, session_driver) ==
    /\ apRun.pc = "idle"
    /\ apRun' = [pc |-> "loop",
               config |-> [max_parallel |-> max_parallel,
                           drift_failure_threshold |-> drift_failure_threshold,
                           dry_run |-> dry_run, session_driver |-> session_driver],
               workers |-> <<>>,
               completed_tasks |-> {}, failed_tasks |-> {}, escalated_tasks |-> {},
               loop_count |-> 0, ready |-> <<>>, batch |-> <<>>,
               dispatches |-> [id \in AutopilotIds |-> 0],
               scores |-> [id \in AutopilotIds |-> <<>>]]
    /\ UNCHANGED <<graphVars, policyVars, checkVars, breakerVars, auditVars, storeVars,
                   updateVars, throttleVars>>

\* project_autopilot.py:424-441: the head of one pass of `while True`.
AutopilotPass(ready) ==
    /\ apRun.pc = "loop"
    /\ apRun.loop_count < MaxLoops
    /\ LET act == actionable(ready, apRun)
           batch == SubSeq(act, 1, Min(Len(act), apRun.config.max_parallel))
       IN apRun' = [apRun EXCEPT !.loop_count = @ + 1,
                             !.ready = ready,
                             !.batch = batch,
                             !.pc = IF act = <<>> THEN "done"
                                    ELSE IF batch = <<>> THEN "loop" ELSE "batch"]
    /\ UNCHANGED <<graphVars, policyVars, checkVars, breakerVars, auditVars, storeVars,
                   updateVars, throttleVars>>

\* Where the loop stands after the task at the head of the batch.
AfterTask(r) ==
    [r EXCEPT !.batch = Tail(@), !.pc = IF Tail(r.batch) = <<>> THEN "loop" ELSE "batch"]

\* project_autopilot.py:443-447: a batch task of a dry run.
AutopilotDryRunTask ==
    /\ apRun.pc = "batch"
    /\ apRun.config.dry_run
    /\ apRun' = [AfterTask(apRun) EXCEPT !.completed_tasks = @ \cup {Head(apRun.batch)}]
    /\ UNCHANGED <<graphVars, policyVars, checkVars, breakerVars, auditVars, storeVars,
                   updateVars, throttleVars>>

\* project_autopilot.py:449-478: a batch task that is dispatched; ok is what the
\* worker came to and score what run_drift_check answered.
AutopilotDispatchTask(ok, score) ==
    /\ apRun.pc = "batch"
    /\ ~apRun.config.dry_run
    /\ LET id == Head(apRun.batch)
           d == dispatch_task(id, apRun.config.session_driver, ok)
           r1 == [AfterTask(apRun) EXCEPT
                     !.dispatches[id] = @ + 1,
                     !.workers = IF d.stored THEN (id :> d.ctx) @@ @ ELSE @]
       IN IF d.ctx.status = "failed"
          THEN apRun' = [r1 EXCEPT !.failed_tasks = @ \cup {id}]
          ELSE LET r2 == [r1 EXCEPT !.scores[id] = Append(@, score)]
               IN IF score = "red"
                  THEN LET ctx == [d.ctx EXCEPT !.drift_fail_count = @ + 1]
                       IN IF should_escalate(ctx, apRun.config.drift_failure_threshold)
                          THEN apRun' = [r2 EXCEPT
                                         !.workers[id] = [ctx EXCEPT !.status = "escalated"],
                                         !.escalated_tasks = @ \cup {id}]
                          ELSE apRun' = [r2 EXCEPT !.workers[id] = ctx,
                                                 !.completed_tasks = @ \cup {id}]
                  ELSE apRun' = [r2 EXCEPT !.completed_tasks = @ \cup {id}]
    /\ UNCHANGED <<graphVars, policyVars, checkVars, breakerVars, auditVars, storeVars,
                   updateVars, throttleVars>>

Scores == {"green", "yellow", "red", "unknown"}

InitAutopilot ==
    /\ PolicyIdle /\ GraphIdle /\ CheckIdle /\ BreakerIdle /\ AuditIdle /\ SideIdle

NextAutopilot ==
    \/ \E max_parallel \in {0, 1, 2},
          drift_failure_threshold \in {1, DRIFT_FAILURE_THRESHOLD},
          dry_run \in BOOLEAN, session_driver \in BOOLEAN :
           AutopilotStart(max_parallel, drift_failure_threshold, dry_run, session_driver)
    \/ \E ready \in ReadyLists : AutopilotPass(ready)
    \/ AutopilotDryRunTask
    \/ \E ok \in BOOLEAN, score \in Scores : AutopilotDispatchTask(ok, score)

SpecAutopilot == InitAutopilot /\ [][NextAutopilot]_vars

\* The loop is sequential code whose subprocesses return: a step that can be
\* taken is taken.
SpecAutopilotFair == SpecAutopilot /\ WF_vars(NextAutopilot)

\* The sets of r that hold id.
SetsHolding(r, id) ==
    {n \in {"completed", "failed", "escalated"} :
        id \in (CASE n = "completed" -> r.completed_tasks
                  [] n = "failed" -> r.failed_tasks
                  [] n = "escalated" -> r.escalated_tasks)}

C38_RedTaskEscalatedNotCompleted ==
    apRun.pc # "idle" =>
       \A id \in AutopilotIds :
          (/\ apRun.config.drift_failure_threshold = DRIFT_FAILURE_THRESHOLD
           /\ apRun.scores[id] # <<>>
           /\ \A i \in 1..Len(apRun.scores[id]) : apRun.scores[id][i] = "red")
          => id \notin apRun.completed_tasks /\ id \in apRun.escalated_tasks

=============================================================================
